---------------------------- MODULE Spec2Model ----------------------------
(***************************************************************************)
(* Model of the what-the-FEX sampler (legacy/Src/what-the-FEX.cpp):        *)
(* the shared-memory walk (SampleStats), the per-pass accumulation         *)
(* (AccumulateJITStats), the main loop of main() and the resident-memory   *)
(* worker (ResidentFEXAnonSampling) with its reader (HandleMemstats).      *)
(*                                                                         *)
(* uint64_t arithmetic is modular; the modulus is WordMod, which stands    *)
(* for 2^64 (the checker's integers are 32 bits wide).  A double is an     *)
(* exact rational [n, d]; d = 0 encodes +inf (n = 1) and NaN (n = 0).      *)
(* The steady clock is read in whole seconds.                              *)
(***************************************************************************)
EXTENDS Integers, Sequences, FiniteSets, TLC

(***************************************************************************)
(* Program constants.                                                      *)
(***************************************************************************)
HeaderBytes == 64            \* sizeof(ThreadStatsHeader)
ThreadStatsBytes == 80       \* sizeof(ThreadStats)
CopyTypeBytes == 16          \* sizeof(copy_type)
HistogramSize == 200         \* fex_load_histogram(200, DEFAULT_HISTO)
StaleTimeout == 10           \* std::chrono::seconds(10)
SamplePeriod == 1            \* std::chrono::milliseconds(1000), in seconds
SMCThreshold == 500
SIGBUSThreshold == 5000
SoftfloatThreshold == 1000000
F32Precision == 24           \* significand bits of float
MaxActiveThreadsCap == 32    \* the cap HandleJITstats puts on the threads it draws
MAP_FAILED == -1
STATS_VERSION == 2           \* FEXCore::Profiler::STATS_VERSION
MinRegionBytes == 32         \* sizeof(uint64_t) * 4
NoPidFd == -1                \* pidfd_open failed: g_stats.pidfd_watch == -1
PidFd == 4                   \* a descriptor returned by pidfd_open

(***************************************************************************)
(* Bounds of the model.                                                    *)
(***************************************************************************)
WordMod == 1048576           \* stands for 2^64
MaxPasses == 3               \* passes explored by Spec
MaxClock == 24               \* last clock reading explored by Spec
MaxWalkPasses == 2           \* passes explored by SpecWalk
MaxHistPasses == 203         \* passes explored by SpecHist
MaxLoadPasses == 2           \* passes explored by SpecLoads
MaxMemPasses == 1            \* worker iterations explored by SpecMem
MaxReads == 1                \* calls of HandleMemstats explored by SpecMem
MaxFlagPasses == 3           \* passes explored by SpecFlags
MaxWatchPasses == 2          \* passes explored by SpecWatch
MaxStartPasses == 2          \* passes explored by SpecStart
MaxSmapsPasses == 2          \* worker iterations explored by SpecSmaps
MaxShutdownPasses == 2       \* worker iterations explored by SpecShutdown
MaxFrames == 2               \* frames of a recording explored by SpecReplay
MaxReplayClock == 4          \* clock readings of SpecReplay
MaxRecordPasses == 2         \* passes explored by SpecRecords
MaxWalkVisits == 4           \* records one walk of SpecRecords copies
MaxEmitted == 3              \* frames emitted before the last seek of SpecSeek

(***************************************************************************)
(* struct ThreadStats: field names and byte layout.                        *)
(***************************************************************************)
CounterSeq ==
  << "AccumulatedJITTime", "AccumulatedSignalTime", "SIGBUSCount", "SMCCount",
     "FloatFallbackCount", "AccumulatedCacheMissCount",
     "AccumulatedCacheReadLockTime", "AccumulatedCacheWriteLockTime",
     "AccumulatedJITCount" >>

Counters == { CounterSeq[i] : i \in 1..Len(CounterSeq) }

Fields == {"Next", "TID"} \cup Counters

CounterIndex(f) == CHOOSE i \in 1..Len(CounterSeq) : CounterSeq[i] = f

FieldStart(f) ==
  IF f = "Next" THEN 0
  ELSE IF f = "TID" THEN 4
  ELSE 8 * CounterIndex(f)

FieldEnd(f) ==
  IF f = "Next" THEN 4
  ELSE IF f = "TID" THEN 8
  ELSE 8 * CounterIndex(f) + 8

ZeroStats == [f \in Fields |-> 0]

(***************************************************************************)
(* uint64_t arithmetic.                                                    *)
(***************************************************************************)
Sub64(a, b) == (a - b) % WordMod

Add64(a, b) == (a + b) % WordMod

\* #define accumulate(dest, name) dest += Stat->name - PreviousStats->name
accumulate(dest, stat, prev) == Add64(dest, Sub64(stat, prev))

Min(a, b) == IF a <= b THEN a ELSE b

(***************************************************************************)
(* double arithmetic on exact rationals.                                   *)
(***************************************************************************)
RECURSIVE Gcd(_, _)
Gcd(a, b) == IF b = 0 THEN a ELSE Gcd(b, a % b)

Inf == [n |-> 1, d |-> 0]
NaN == [n |-> 0, d |-> 0]

Ratio(n, d) ==
  IF d = 0 THEN (IF n = 0 THEN NaN ELSE Inf)
  ELSE LET g == Gcd(n, d) IN [n |-> n \div g, d |-> d \div g]

DZero == Ratio(0, 1)

DInt(i) == Ratio(i, 1)

DMul(x, y) ==
  IF x = NaN \/ y = NaN THEN NaN
  ELSE IF x = Inf \/ y = Inf
    THEN (IF x.n = 0 \/ y.n = 0 THEN NaN ELSE Inf)
  ELSE Ratio(x.n * y.n, x.d * y.d)

DDiv(x, y) ==
  IF x = NaN \/ y = NaN THEN NaN
  ELSE IF x = Inf THEN (IF y = Inf THEN NaN ELSE Inf)
  ELSE IF y = Inf THEN DZero
  ELSE Ratio(x.n * y.d, x.d * y.n)

\* x >= y on doubles (false when either side is NaN)
DGeq(x, y) ==
  IF x = NaN \/ y = NaN THEN FALSE
  ELSE IF x = Inf THEN TRUE
  ELSE IF y = Inf THEN FALSE
  ELSE x.n * y.d >= y.n * x.d


(***************************************************************************)
(* static_cast<float>(double): round to nearest, ties to even, on the      *)
(* F32Precision-bit significand (normal range).                            *)
(***************************************************************************)
RECURSIVE Pow2(_)
Pow2(k) == IF k = 0 THEN 1 ELSE 2 * Pow2(k - 1)

\* floor(log2(n / d)) for n >= d > 0
RECURSIVE Log2Up(_, _)
Log2Up(n, d) == IF n < 2 * d THEN 0 ELSE 1 + Log2Up(n \div 2, d)

\* -floor(log2(n / d)) for 0 < n < d
RECURSIVE Log2Down(_, _)
Log2Down(n, d) == IF n >= d THEN 0 ELSE 1 + Log2Down(2 * n, d)

RoundHalfEven(num, den) ==
  LET q == num \div den
      r == num % den
  IN IF 2 * r > den \/ (2 * r = den /\ q % 2 = 1) THEN q + 1 ELSE q

ToFloat(x) ==
  IF x.d = 0 \/ x.n = 0 THEN x
  ELSE LET e == IF x.n >= x.d THEN Log2Up(x.n, x.d) ELSE 0 - Log2Down(x.n, x.d)
           s == (F32Precision - 1) - e
       IN IF s >= 0
            THEN Ratio(RoundHalfEven(x.n * Pow2(s), x.d), Pow2(s))
            ELSE Ratio(RoundHalfEven(x.n, x.d * Pow2(0 - s)) * Pow2(0 - s), 1)


(***************************************************************************)
(* State.                                                                  *)
(***************************************************************************)
VARIABLES
  region,                  \* the shared region as the emulator last wrote it:
                           \*   header ThreadStatsSize, Head, Size and the
                           \*   ThreadStats record at each slot offset
  live_map,                \* kernel: base of the observer's valid mapping, 0 if none
  shm_size,                \* g_stats.shm_size
  shm_base,                \* g_stats.shm_base
  head,                    \* g_stats.head
  thread_stats_size_to_copy,
  cycle_counter_frequency,
  hardware_concurrency,
  sampled_stats,           \* g_stats.sampled_stats: tid -> retained_stats
  previous_sample_period,
  FirstLoop,
  max_thread_loads,
  fex_load_histogram,
  JITData,                 \* JITStatsUserData of main()
  Now,                     \* main(): last reading of the steady clock
  HeaderOffset,            \* SampleStats(): walk cursor
  pc,                      \* position of the main thread
  n_passes,                \* history: passes completed
  walk,                    \* history of the current (or last) pass
  smaps,                   \* /proc/<pid>/smaps as the kernel shows it now
  MemStats,                \* g_stats.MemStats
  mem,                     \* ResidentFEXAnonSampling(): position and locals
  reader,                  \* HandleMemstats(): position and locals
  published,               \* history: the snapshots stored completely
  ShuttingDown,            \* g_stats.ShuttingDown
  pidfd_watch,             \* g_stats.pidfd_watch
  target,                  \* the observed process: running, its region still named,
                           \* the size of the region's object
  recording,               \* RecordingWriter: its state, what it was given, its file
  replay                   \* RecordingReader and ReplaySource

regionVars == << region >>

mapVars == << live_map, shm_size, shm_base, head >>

setupVars ==
  << thread_stats_size_to_copy, cycle_counter_frequency, hardware_concurrency >>

passVars ==
  << previous_sample_period, FirstLoop, max_thread_loads, fex_load_histogram >>

\* the descriptor of the observed process and the process itself
watchVars == << pidfd_watch, target >>

\* the recording and its replay
replayVars == << recording, replay >>

memVars == << smaps, MemStats, mem, reader, published, ShuttingDown >>

samplerVars ==
  << regionVars, mapVars, setupVars, passVars, sampled_stats, JITData, Now,
     HeaderOffset, pc, n_passes, walk, watchVars >>

vars ==
  << region, live_map, shm_size, shm_base, head, thread_stats_size_to_copy,
     cycle_counter_frequency, hardware_concurrency, sampled_stats,
     previous_sample_period, FirstLoop, max_thread_loads, fex_load_histogram,
     JITData, Now, HeaderOffset, pc, n_passes, walk, smaps, MemStats, mem, reader,
     published, ShuttingDown, pidfd_watch, target, recording, replay >>

(***************************************************************************)
(* The shared region.                                                      *)
(***************************************************************************)
\* the offset at which the emulator places the record of its i-th thread
Slot(i) == HeaderBytes + (i - 1) * ThreadStatsBytes

\* StatFromOffset(Base, Offset), read through the mapping; bytes of the region
\* that hold no record read as zero
StatFromOffset(r, Offset) ==
  IF Offset \in DOMAIN r.Stats THEN r.Stats[Offset] ELSE ZeroStats

(***************************************************************************)
(* g_stats as main() leaves it before the loop.                            *)
(***************************************************************************)
\* main() without its test for a header that leaves ThreadStatsSize unset
CopySizeFor_ZeroIsZero(ThreadStatsSize) == Min(ThreadStatsSize, ThreadStatsBytes)

\* main(): thread_stats_size_to_copy
CopySizeFor(ThreadStatsSize) ==
  IF ThreadStatsSize # 0 THEN Min(ThreadStatsSize, ThreadStatsBytes)
  ELSE ThreadStatsBytes

DEFAULT_HISTO ==
  [ load_percentage |-> DZero, high_jit_load |-> FALSE,
    high_invalidation_or_smc |-> FALSE, high_sigbus |-> FALSE,
    high_softfloat |-> FALSE ]

\* JITStatsUserData JITData {}
JITDataInit ==
  [ TotalThisPeriod |-> ZeroStats, hottest_threads |-> << >>, sample_period |-> 0,
    threads_sampled |-> 0, total_jit_time |-> 0, TotalJITInvocations |-> 0,
    fex_load |-> DZero ]

\* fex_stats::retained_stats {}
RetainedInit == [ LastSeen |-> 0, PreviousStats |-> ZeroStats, Stats |-> ZeroStats ]

\* history of a pass: the offsets the walk dereferenced, the tids it copied,
\* those among them it inserted, the offset at which it stopped, shm_size
\* before the resize check, sampled_stats as the accumulation loop found it,
\* the number of records the walk copied
WalkInit ==
  [ offsets |-> {}, tids |-> {}, fresh |-> {}, stop |-> 0, old_size |-> 0,
    pre |-> << >>, visits |-> 0 ]

\* no recording has been asked for
NoRecording == [ state |-> "none" ]

\* no recording has been opened
NoReplay == [ state |-> "none" ]

\* the observed process as main() finds it, its region st_size bytes long
TargetInit(st_size) == [ running |-> TRUE, shm_exists |-> TRUE, st_size |-> st_size ]

\* the state in which main() enters its loop, for a region r that passed the
\* start-up checks, fstat size st_size and mapping base b; fd is what
\* pidfd_open returned
InitLoop(r, st_size, b, freq, hw, t0, fd) ==
  /\ pidfd_watch = fd
  /\ target = TargetInit(st_size)
  /\ region = r
  /\ live_map = b
  /\ shm_size = st_size
  /\ shm_base = b
  /\ head = b
  /\ thread_stats_size_to_copy = CopySizeFor(r.ThreadStatsSize)
  /\ cycle_counter_frequency = freq
  /\ hardware_concurrency = hw
  /\ sampled_stats = << >>
  /\ previous_sample_period = 0
  /\ FirstLoop = TRUE
  /\ max_thread_loads = << >>
  /\ fex_load_histogram = [i \in 1..HistogramSize |-> DEFAULT_HISTO]
  /\ JITData = JITDataInit
  /\ Now = t0
  /\ HeaderOffset = 0
  /\ pc = "loop"
  /\ n_passes = 0
  /\ walk = WalkInit

\* the same with the descriptor of the observed process at hand
InitMain(r, st_size, b, freq, hw, t0) == InitLoop(r, st_size, b, freq, hw, t0, PidFd)

(***************************************************************************)
(* check_shm_update_necessary()                                            *)
(***************************************************************************)
\* mmap(nullptr, len, PROT_READ, MAP_SHARED, fd, 0) placing the mapping at b
Mmap(len, b) == IF len = 0 THEN MAP_FAILED ELSE b

\* the remap that leaves g_stats.head pointing into the old mapping
check_shm_update_necessary_StaleHead(cur, new_shm_size, b) ==
  IF cur.shm_size # new_shm_size
    THEN [ shm_size |-> new_shm_size,
           shm_base |-> Mmap(new_shm_size, b),
           head |-> cur.head,
           live_map |-> IF Mmap(new_shm_size, b) = MAP_FAILED THEN 0 ELSE b ]
    ELSE cur

\* the mapping fields after the call: cur holds shm_size, shm_base, head and
\* the kernel's live_map, new_shm_size is head->Size, b the address the kernel
\* picks when it remaps
check_shm_update_necessary(cur, new_shm_size, b) ==
  IF cur.shm_size # new_shm_size
    THEN [ shm_size |-> new_shm_size,
           shm_base |-> Mmap(new_shm_size, b),
           head |-> Mmap(new_shm_size, b),
           live_map |-> IF Mmap(new_shm_size, b) = MAP_FAILED THEN 0 ELSE b ]
    ELSE cur

(***************************************************************************)
(* SampleStats()                                                           *)
(***************************************************************************)
\* AtomicCopyStats: whole copy_type elements of Src, the rest of Dest is kept
AtomicCopyStats(Dest, Src, Size) ==
  LET elements_to_copy == Size \div CopyTypeBytes
  IN [ f \in Fields |->
         IF FieldEnd(f) <= elements_to_copy * CopyTypeBytes THEN Src[f] ELSE Dest[f] ]

\* the walk without its test against shm_size
WalkDereferences_NoBoundsCheck(Offset, size) == Offset # 0

\* while (HeaderOffset != 0) { if (HeaderOffset >= g_stats.shm_size) break; ...
WalkDereferences(Offset, size) == Offset # 0 /\ ~(Offset >= size)

\* the record lies inside the mapped length
RecordMapped(Offset, size) == Offset + ThreadStatsBytes <= size

\* g_stats.sampled_stats[tid] (operator[] inserts a value-initialised entry)
Entry(stats, tid) == IF tid \in DOMAIN stats THEN stats[tid] ELSE RetainedInit

MapPut(m, k, v) == [ x \in DOMAIN m \cup {k} |-> IF x = k THEN v ELSE m[x] ]

MapErase(m, k) == [ x \in DOMAIN m \ {k} |-> m[x] ]

\* a walk that copies the record and leaves LastSeen as it was
SampleOne_KeepsLastSeen(stats, Stat, size_to_copy, now) ==
  LET it == Entry(stats, Stat["TID"])
  IN MapPut(stats, Stat["TID"],
            [ it EXCEPT !.Stats = AtomicCopyStats(it.Stats, Stat, size_to_copy) ])

\* one iteration of the walk loop that dereferences Offset
SampleOne(stats, Stat, size_to_copy, now) ==
  LET it == Entry(stats, Stat["TID"])
  IN MapPut(stats, Stat["TID"],
            [ it EXCEPT !.Stats = AtomicCopyStats(it.Stats, Stat, size_to_copy),
                        !.LastSeen = now ])

(***************************************************************************)
(* AccumulateJITStats()                                                    *)
(***************************************************************************)
\* memcpy(dst, src, n) on one field holding k of its low-order bytes
CopyLowBytes(src, dst, k) ==
  IF k >= 4 THEN src
  ELSE LET m == Pow2(8 * k) IN (src % m) + (dst - (dst % m))

\* an accumulation loop without its memcpy
Memcpy_Nothing(Dest, Src, n) == Dest

\* memcpy(PreviousStats, Stat, n)
Memcpy(Dest, Src, n) ==
  [ f \in Fields |->
      IF FieldEnd(f) <= n THEN Src[f]
      ELSE IF FieldStart(f) < n THEN CopyLowBytes(Src[f], Dest[f], n - FieldStart(f))
      ELSE Dest[f] ]

\* the keys of a std::map in iteration order
KeysInOrder(S) ==
  [ i \in 1..Cardinality(S) |->
      CHOOSE k \in S : Cardinality({ y \in S : y < k }) = i - 1 ]

\* the erase test that lets an entry live through the pass in which its age
\* reaches the timeout
IsStale_Strict(now, LastSeen) == (now - LastSeen) > StaleTimeout

\* the erase test of the loop
IsStale(now, LastSeen) == (now - LastSeen) >= StaleTimeout

\* the body of the loop over g_stats.sampled_stats for the entry of tid
AccumulateEntry(acc, tid, size_to_copy, now) ==
  LET it == acc.stats[tid]
      PreviousStats == it.PreviousStats
      Stat == it.Stats
      total_time ==
        accumulate(
          accumulate(0, Stat["AccumulatedJITTime"], PreviousStats["AccumulatedJITTime"]),
          Stat["AccumulatedSignalTime"], PreviousStats["AccumulatedSignalTime"])
      J == acc.JITData
      J1 == [ J EXCEPT
                !.threads_sampled = @ + 1,
                !.total_jit_time = Add64(@, total_time),
                !.TotalThisPeriod =
                   [ f \in Fields |->
                       IF f \in Counters
                         THEN accumulate(@[f], Stat[f], PreviousStats[f])
                         ELSE @[f] ],
                !.TotalJITInvocations = Add64(@, Stat["AccumulatedJITCount"]) ]
      copied == [ it EXCEPT !.PreviousStats = Memcpy(PreviousStats, Stat, size_to_copy) ]
  IN IF IsStale(now, it.LastSeen)
       THEN [ JITData |-> J1, stats |-> MapErase(acc.stats, tid) ]
       ELSE [ JITData |-> [ J1 EXCEPT !.hottest_threads = Append(@, total_time) ],
              stats |-> [ acc.stats EXCEPT ![tid] = copied ] ]

\* for (it = sampled_stats.begin(); it != sampled_stats.end();): keys are the
\* tids still to visit, in the order of the map
RECURSIVE AccumulateLoop(_, _, _, _)
AccumulateLoop(acc, keys, size_to_copy, now) ==
  IF keys = << >> \/ Head(keys) \notin DOMAIN acc.stats THEN acc
  ELSE AccumulateLoop(AccumulateEntry(acc, Head(keys), size_to_copy, now),
                      Tail(keys), size_to_copy, now)

\* std::sort(..., std::greater<uint64_t>())
\* the place of s[j] in the sorted vector: behind the greater elements and
\* behind the equal ones that stand before it
PlaceDesc(s, j) ==
  1 + Cardinality({ k \in 1..Len(s) : s[k] > s[j] \/ (s[k] = s[j] /\ k < j) })

SortDesc(s) ==
  [ i \in 1..Len(s) |-> s[CHOOSE j \in 1..Len(s) : PlaceDesc(s, j) = i] ]

\* MaximumCyclesInSamplePeriod
MaximumCyclesInSamplePeriod(freq, sample_period) ==
  DMul(DInt(freq), DInt(sample_period))

\* JITData.fex_load
FexLoad(total_jit_time, MaxCycles, hw, threads_sampled) ==
  DMul(DDiv(DInt(total_jit_time), DMul(MaxCycles, DInt(Min(hw, threads_sampled)))),
       DInt(100))

\* size of g_stats.max_thread_loads after the resize
MinimumHotThreads(hw, hottest_threads) == Min(hw, Len(hottest_threads))

\* g_stats.max_thread_loads after the pass
ThreadLoads(hw, hottest_threads, MaxCycles) ==
  [ i \in 1..MinimumHotThreads(hw, hottest_threads) |->
      [ load_percentage |->
          ToFloat(DMul(DDiv(DInt(hottest_threads[i]), MaxCycles), DInt(100))),
        TotalCycles |-> hottest_threads[i] ] ]

\* the entry whose high_jit_load needs more than the cycles of one core
HistogramEntry_JitAbove(J, MaxCycles) ==
  [ load_percentage |-> ToFloat(J.fex_load),
    high_jit_load |-> DGeq(DInt(J.total_jit_time), MaxCycles)
                        /\ DInt(J.total_jit_time) # MaxCycles,
    high_invalidation_or_smc |-> J.TotalThisPeriod["SMCCount"] >= SMCThreshold,
    high_sigbus |-> J.TotalThisPeriod["SIGBUSCount"] >= SIGBUSThreshold,
    high_softfloat |-> J.TotalThisPeriod["FloatFallbackCount"] >= SoftfloatThreshold ]

\* the entry whose high_sigbus needs more than the threshold
HistogramEntry_SigbusAbove(J, MaxCycles) ==
  [ load_percentage |-> ToFloat(J.fex_load),
    high_jit_load |-> DGeq(DInt(J.total_jit_time), MaxCycles),
    high_invalidation_or_smc |-> J.TotalThisPeriod["SMCCount"] >= SMCThreshold,
    high_sigbus |-> J.TotalThisPeriod["SIGBUSCount"] > SIGBUSThreshold,
    high_softfloat |-> J.TotalThisPeriod["FloatFallbackCount"] >= SoftfloatThreshold ]

\* the fex_histogram_data pushed by the pass
HistogramEntry(J, MaxCycles) ==
  [ load_percentage |-> ToFloat(J.fex_load),
    high_jit_load |-> DGeq(DInt(J.total_jit_time), MaxCycles),
    high_invalidation_or_smc |-> J.TotalThisPeriod["SMCCount"] >= SMCThreshold,
    high_sigbus |-> J.TotalThisPeriod["SIGBUSCount"] >= SIGBUSThreshold,
    high_softfloat |-> J.TotalThisPeriod["FloatFallbackCount"] >= SoftfloatThreshold ]

\* the push without the erase
HistogramPush_NoErase(histogram, e) == Append(histogram, e)

\* fex_load_histogram.erase(begin()); fex_load_histogram.push_back(e)
HistogramPush(histogram, e) == Append(Tail(histogram), e)

\* the assignments at the top of AccumulateJITStats
ResetJITData(J) ==
  [ J EXCEPT !.total_jit_time = 0, !.threads_sampled = 0, !.hottest_threads = << >>,
             !.TotalJITInvocations = 0, !.TotalThisPeriod = ZeroStats ]

\* JITData after the loop, the sort and, unless FirstLoop, the load computation
FinishJITData(J, first, now, prev, freq, hw) ==
  LET sorted == [ J EXCEPT !.hottest_threads = SortDesc(@) ]
  IN IF first THEN sorted
     ELSE LET period == now - prev
              MaxCycles == MaximumCyclesInSamplePeriod(freq, period)
          IN [ sorted EXCEPT
                 !.sample_period = period,
                 !.fex_load = FexLoad(sorted.total_jit_time, MaxCycles, hw,
                                      sorted.threads_sampled) ]

\* the FirstLoop test left out of the thread loads
NextThreadLoads_EveryPass(first, loads, hw, J, MaxCycles) ==
  ThreadLoads(hw, J.hottest_threads, MaxCycles)

\* g_stats.max_thread_loads after the pass
NextThreadLoads(first, loads, hw, J, MaxCycles) ==
  IF first THEN loads ELSE ThreadLoads(hw, J.hottest_threads, MaxCycles)

\* the FirstLoop test left out of the histogram
NextHistogram_EveryPass(first, histogram, J, MaxCycles) ==
  HistogramPush(histogram, HistogramEntry(J, MaxCycles))

\* g_stats.fex_load_histogram after the pass
NextHistogram(first, histogram, J, MaxCycles) ==
  IF first THEN histogram ELSE HistogramPush(histogram, HistogramEntry(J, MaxCycles))

(***************************************************************************)
(* Actions of the main thread.                                             *)
(***************************************************************************)
\* a loop that never looks at the result of its poll
PollHup_Never(fd, tgt) == FALSE

\* the head of the loop: if (pidfd_watch != -1) { poll(&fd, 1, 0); ... } finds
\* POLLHUP, which the descriptor of a process that has exited reports
PollHup(fd, tgt) == fd # NoPidFd /\ ~tgt.running

Mapping == [ shm_size |-> shm_size, shm_base |-> shm_base, head |-> head,
             live_map |-> live_map ]

\* a loop for which a sample is due at every iteration
SampleDue_Always(now, prev) == TRUE

\* CurrentSamples = Now - previous_sample_period; CurrentSamples >= SamplePeriod
SampleDue(now, prev) == now - prev >= SamplePeriod

\* a loop iteration that finds the sample period not yet elapsed; d is the
\* time that went by since the previous reading of the clock
LoopNotDue(d) ==
  /\ pc = "loop"
  /\ ~PollHup(pidfd_watch, target)
  /\ ~SampleDue(Now + d, previous_sample_period)
  /\ Now' = Now + d
  /\ UNCHANGED << memVars, watchVars, regionVars, mapVars, setupVars, passVars, sampled_stats, JITData,
                  HeaderOffset, pc, n_passes, walk >>
  /\ UNCHANGED replayVars

\* a loop iteration that samples: AccumulateJITStats up to the first read of
\* SampleStats; b is the address a remap returns
PassBegin(d, b) ==
  /\ pc = "loop"
  /\ ~PollHup(pidfd_watch, target)
  /\ SampleDue(Now + d, previous_sample_period)
  /\ Now' = Now + d
  /\ JITData' = ResetJITData(JITData)
  /\ LET m == check_shm_update_necessary(Mapping, region.Size, b)
     IN /\ shm_size' = m.shm_size
        /\ shm_base' = m.shm_base
        /\ head' = m.head
        /\ live_map' = m.live_map
        /\ IF m.head = m.live_map
             THEN pc' = "walk" /\ HeaderOffset' = region.Head
             ELSE pc' = "crashed" /\ HeaderOffset' = HeaderOffset
  /\ walk' = [ WalkInit EXCEPT !.old_size = shm_size ]
  /\ UNCHANGED << memVars, watchVars, regionVars, setupVars, passVars, sampled_stats, n_passes >>
  /\ UNCHANGED replayVars

\* a loop iteration whose poll finds POLLHUP: goto exit, and main() at its
\* exit label leaves through exit_screen
LoopExit ==
  /\ pc = "loop"
  /\ PollHup(pidfd_watch, target)
  /\ pc' = "exited"
  /\ ShuttingDown' = TRUE
  /\ UNCHANGED << regionVars, mapVars, setupVars, passVars, sampled_stats, JITData, Now,
                  HeaderOffset, n_passes, walk, watchVars, smaps, MemStats, mem,
                  reader, published >>
  /\ UNCHANGED replayVars

\* the walk loop ends: HeaderOffset is 0, or it is not below shm_size
WalkEnd ==
  /\ pc = "walk"
  /\ ~WalkDereferences(HeaderOffset, shm_size)
  /\ pc' = "accum"
  /\ walk' = [ walk EXCEPT !.stop = HeaderOffset ]
  /\ UNCHANGED << memVars, watchVars, regionVars, mapVars, setupVars, passVars, sampled_stats, JITData,
                  Now, HeaderOffset, n_passes >>
  /\ UNCHANGED replayVars

\* the walk loop copies the record at HeaderOffset
WalkCopy ==
  /\ pc = "walk"
  /\ WalkDereferences(HeaderOffset, shm_size)
  /\ LET Stat == StatFromOffset(region, HeaderOffset)
     IN /\ sampled_stats' = SampleOne(sampled_stats, Stat, thread_stats_size_to_copy, Now)
        /\ HeaderOffset' = Stat["Next"]
        /\ walk' = [ walk EXCEPT !.offsets = @ \cup {HeaderOffset},
                                 !.tids = @ \cup {Stat["TID"]},
                                 !.fresh = @ \cup ({Stat["TID"]} \ DOMAIN sampled_stats),
                                 !.visits = @ + 1 ]
  /\ UNCHANGED << memVars, watchVars, regionVars, mapVars, setupVars, passVars, JITData, Now, pc, n_passes >>
  /\ UNCHANGED replayVars

\* the walk loop reads a record that reaches beyond the mapped length and
\* the access faults
WalkFault ==
  /\ pc = "walk"
  /\ WalkDereferences(HeaderOffset, shm_size)
  /\ ~RecordMapped(HeaderOffset, shm_size)
  /\ pc' = "crashed"
  /\ walk' = [ walk EXCEPT !.offsets = @ \cup {HeaderOffset} ]
  /\ UNCHANGED << memVars, watchVars, regionVars, mapVars, setupVars, passVars, sampled_stats, JITData,
                  Now, HeaderOffset, n_passes >>
  /\ UNCHANGED replayVars

\* AccumulateJITStats from the loop over sampled_stats to its end
PassFinish ==
  /\ pc = "accum"
  /\ LET acc == AccumulateLoop([ JITData |-> JITData, stats |-> sampled_stats ],
                               KeysInOrder(DOMAIN sampled_stats),
                               thread_stats_size_to_copy, Now)
         J == FinishJITData(acc.JITData, FirstLoop, Now, previous_sample_period,
                            cycle_counter_frequency, hardware_concurrency)
         MaxCycles == MaximumCyclesInSamplePeriod(cycle_counter_frequency,
                                                  Now - previous_sample_period)
     IN /\ sampled_stats' = acc.stats
        /\ JITData' = J
        /\ max_thread_loads' =
             NextThreadLoads(FirstLoop, max_thread_loads, hardware_concurrency, J, MaxCycles)
        /\ fex_load_histogram' = NextHistogram(FirstLoop, fex_load_histogram, J, MaxCycles)
  /\ FirstLoop' = FALSE
  /\ previous_sample_period' = Now
  /\ pc' = "loop"
  /\ n_passes' = n_passes + 1
  /\ walk' = [ walk EXCEPT !.pre = sampled_stats ]
  /\ UNCHANGED << memVars, watchVars, regionVars, mapVars, setupVars, Now, HeaderOffset >>
  /\ UNCHANGED replayVars

(***************************************************************************)
(* The emulator.                                                           *)
(***************************************************************************)
\* the observed process exits; unlinked tells whether the name of its region
\* goes with it
TargetExits(unlinked) ==
  /\ target.running
  /\ target' = [ target EXCEPT !.running = FALSE, !.shm_exists = ~unlinked ]
  /\ UNCHANGED << memVars, pidfd_watch, regionVars, mapVars, setupVars, passVars,
                  sampled_stats, JITData, Now, HeaderOffset, pc, n_passes, walk >>
  /\ UNCHANGED replayVars

\* the emulator's writes since the observer's last step leave the region as r
EmuWrite(r) ==
  /\ pc \in {"loop", "walk"}
  /\ r # region
  /\ r.ThreadStatsSize = region.ThreadStatsSize
  /\ region' = r
  /\ UNCHANGED << memVars, watchVars, mapVars, setupVars, passVars, sampled_stats, JITData, Now,
                  HeaderOffset, pc, n_passes, walk >>
  /\ UNCHANGED replayVars

(***************************************************************************)
(* ResidentFEXAnonSampling(): the memory worker.                           *)
(***************************************************************************)
\* the atomics of FEXMemStats, in the order they are stored and loaded
AtomicSeq ==
  << "TotalAnon", "JITCode", "OpDispatcher", "Frontend", "CPUBackend", "Lookup",
     "LookupL1", "ThreadStates", "BlockLinks", "Misc", "JEMalloc", "Unaccounted" >>

Atomics == { AtomicSeq[i] : i \in 1..Len(AtomicSeq) }

\* ~0ULL
AllOnes == WordMod - 1

ZeroAnon == [ Begin |-> 0, End |-> 0, Size |-> 0 ]

\* g_stats.MemStats as constructed
MemStatsInit == [ atomics |-> [ a \in Atomics |-> AllOnes ], LargestAnon |-> ZeroAnon ]

\* Line.find(needle) != Line.npos: a line carries the needles it contains
Contains(Line, needle) == needle \in Line.marks

\* sscanf(Line.c_str(), "%lx-%lx", &Begin, &End): no conversion without a range
ScanRange(Line, st) ==
  IF Line.ranged THEN [ st EXCEPT !.Begin = Line.Begin, !.End = Line.End ] ELSE st

\* a chain of finds that looks for FEXMem_Lookup before FEXMem_Lookup_L1
SubRegionOf_LookupFirst(Line) ==
  IF Contains(Line, "FEXMemJIT") THEN "JITCode"
  ELSE IF Contains(Line, "FEXMem_OpDispatcher") THEN "OpDispatcher"
  ELSE IF Contains(Line, "FEXMem_Frontend") THEN "Frontend"
  ELSE IF Contains(Line, "FEXMem_CPUBackend") THEN "CPUBackend"
  ELSE IF Contains(Line, "FEXMem_Lookup") THEN "Lookup"
  ELSE IF Contains(Line, "FEXMem_Lookup_L1") THEN "LookupL1"
  ELSE IF Contains(Line, "FEXMem_ThreadState") THEN "ThreadStates"
  ELSE IF Contains(Line, "FEXMem_BlockLinks") THEN "BlockLinks"
  ELSE IF Contains(Line, "FEXMem_Misc") THEN "Misc"
  ELSE "Unaccounted"

\* the chain of finds that picks the sub-region of a FEXMem mapping
SubRegionOf(Line) ==
  IF Contains(Line, "FEXMemJIT") THEN "JITCode"
  ELSE IF Contains(Line, "FEXMem_OpDispatcher") THEN "OpDispatcher"
  ELSE IF Contains(Line, "FEXMem_Frontend") THEN "Frontend"
  ELSE IF Contains(Line, "FEXMem_CPUBackend") THEN "CPUBackend"
  ELSE IF Contains(Line, "FEXMem_Lookup_L1") THEN "LookupL1"
  ELSE IF Contains(Line, "FEXMem_Lookup") THEN "Lookup"
  ELSE IF Contains(Line, "FEXMem_ThreadState") THEN "ThreadStates"
  ELSE IF Contains(Line, "FEXMem_BlockLinks") THEN "BlockLinks"
  ELSE IF Contains(Line, "FEXMem_Misc") THEN "Misc"
  ELSE "Unaccounted"

\* ConvertToBytes: the size in bytes, or the exit through exit_screen
ConvertToBytes(Size, Granule) ==
  IF Granule = "kB" THEN [ ok |-> TRUE, bytes |-> (Size * 1024) % WordMod ]
  ELSE [ ok |-> FALSE, bytes |-> 0 ]

\* the locals of a pass over the file before its first line
ParseInit ==
  [ totals |-> [ a \in Atomics |-> 0 ], Largest |-> ZeroAnon, Begin |-> 0, End |-> 0,
    ActiveSubRegion |-> "nullptr", exited |-> FALSE ]

\* a block's resident bytes counted in the total only
AddResident_TotalOnly(st, bytes) ==
  [ st EXCEPT !.totals["TotalAnon"] = Add64(@, bytes) ]

\* TotalResident += ResidentInBytes; *ActiveSubRegion += ResidentInBytes
AddResident(st, bytes) ==
  [ st EXCEPT !.totals["TotalAnon"] = Add64(@, bytes),
              !.totals[st.ActiveSubRegion] = Add64(@, bytes) ]

\* the body of the getline loop
ParseLine(st, Line) ==
  IF st.exited THEN st
  ELSE IF Contains(Line, "FEXMem")
    THEN [ ScanRange(Line, st) EXCEPT !.ActiveSubRegion = SubRegionOf(Line) ]
  ELSE IF Contains(Line, "JEMalloc") \/ Contains(Line, "FEXAllocator")
    THEN [ ScanRange(Line, st) EXCEPT !.ActiveSubRegion = "JEMalloc" ]
  ELSE IF Contains(Line, "VmFlags")
    THEN [ st EXCEPT !.ActiveSubRegion = "nullptr" ]
  ELSE IF st.ActiveSubRegion # "nullptr" /\ Contains(Line, "Rss")
    THEN LET r == ConvertToBytes(Line.Size, Line.Granule)
             added == AddResident(st, r.bytes)
         IN IF ~r.ok THEN [ st EXCEPT !.exited = TRUE ]
            ELSE IF st.ActiveSubRegion = "JEMalloc" /\ st.Largest.Size < r.bytes
              THEN [ added EXCEPT !.Largest = [ Begin |-> st.Begin, End |-> st.End,
                                                Size |-> r.bytes ] ]
            ELSE added
  ELSE st

RECURSIVE ParseLines(_, _)
ParseLines(st, File) ==
  IF File = << >> THEN st ELSE ParseLines(ParseLine(st, Head(File)), Tail(File))

\* what a pass that stores would leave in MemStats
SnapshotOf(st) == [ atomics |-> st.totals, LargestAnon |-> st.Largest ]

MemInit == [ pc |-> "loop", i |-> 0, local |-> ParseInit, n |-> 0 ]

ReaderInit ==
  [ pc |-> "idle", i |-> 0, vals |-> [ a \in Atomics |-> 0 ], Largest |-> ZeroAnon,
    n |-> 0 ]

InitMemory(File) ==
  /\ smaps = File
  /\ MemStats = MemStatsInit
  /\ mem = MemInit
  /\ reader = ReaderInit
  /\ published = { MemStatsInit }
  /\ ShuttingDown = FALSE
  /\ recording = NoRecording
  /\ replay = NoReplay

\* a worker that stores the result of every pass
Publishes_Always(st) == TRUE

\* if (TotalResident): the pass stores its result
Publishes(st) == st.totals["TotalAnon"] # 0

\* one iteration of the worker's loop up to the stores: the file is read
\* and parsed
MemSample ==
  /\ mem.pc = "loop"
  /\ ~ShuttingDown
  /\ LET st == ParseLines(ParseInit, smaps)
     IN mem' = [ mem EXCEPT
                   !.pc = IF st.exited THEN "exit_screen"
                          ELSE IF Publishes(st) THEN "store"
                          ELSE "sleep",
                   !.i = 0,
                   !.local = st,
                   !.n = @ + 1 ]
  /\ UNCHANGED << samplerVars, smaps, MemStats, reader, published, ShuttingDown >>
  /\ UNCHANGED replayVars

\* read() returns -1: goto exit
MemReadFails ==
  /\ mem.pc = "loop"
  /\ ~ShuttingDown
  /\ mem' = [ mem EXCEPT !.pc = "closed" ]
  /\ UNCHANGED << samplerVars, smaps, MemStats, reader, published, ShuttingDown >>
  /\ UNCHANGED replayVars

\* the next store of the pass: LargestAnon first, then the atomics in order
MemStore ==
  /\ mem.pc = "store"
  /\ MemStats' =
       IF mem.i = 0 THEN [ MemStats EXCEPT !.LargestAnon = mem.local.Largest ]
       ELSE [ MemStats EXCEPT !.atomics[AtomicSeq[mem.i]] =
                                 mem.local.totals[AtomicSeq[mem.i]] ]
  /\ mem' = [ mem EXCEPT !.i = @ + 1,
                         !.pc = IF mem.i = Len(AtomicSeq) THEN "sleep" ELSE "store" ]
  /\ published' =
       IF mem.i = Len(AtomicSeq) THEN published \cup { SnapshotOf(mem.local) }
       ELSE published
  /\ UNCHANGED << samplerVars, smaps, reader, ShuttingDown >>
  /\ UNCHANGED replayVars

\* sleep_for(SamplePeriod) returns
MemWake ==
  /\ mem.pc = "sleep"
  /\ mem' = [ mem EXCEPT !.pc = "loop" ]
  /\ UNCHANGED << samplerVars, smaps, MemStats, reader, published, ShuttingDown >>
  /\ UNCHANGED replayVars

\* a worker whose loop test never finds the flag set
MemExit_Never == FALSE /\ UNCHANGED vars

\* the loop test finds ShuttingDown set
MemExit ==
  /\ mem.pc = "loop"
  /\ ShuttingDown
  /\ mem' = [ mem EXCEPT !.pc = "closed" ]
  /\ UNCHANGED << samplerVars, smaps, MemStats, reader, published, ShuttingDown >>
  /\ UNCHANGED replayVars

\* the observed process maps, unmaps and touches memory
SmapsChange(File) ==
  /\ File # smaps
  /\ smaps' = File
  /\ UNCHANGED << samplerVars, MemStats, mem, reader, published, ShuttingDown >>
  /\ UNCHANGED replayVars

(***************************************************************************)
(* HandleMemstats(): the reader, run by the main thread from RunStack.     *)
(***************************************************************************)
\* the next of the twelve loads
ReaderLoad ==
  /\ reader.pc \in {"idle", "load"}
  /\ reader.i < Len(AtomicSeq)
  /\ ~ShuttingDown
  /\ reader' = [ reader EXCEPT
                   !.pc = "load",
                   !.i = @ + 1,
                   !.vals[AtomicSeq[reader.i + 1]] = MemStats.atomics[AtomicSeq[reader.i + 1]] ]
  /\ UNCHANGED << samplerVars, smaps, MemStats, mem, published, ShuttingDown >>
  /\ UNCHANGED replayVars

\* what a read of LargestAnon can return: the struct is not atomic, and a
\* read that runs while the worker is about to overwrite it races with that
\* write and gets any mixture of the two
LargestAnonRead ==
  IF mem.pc = "store" /\ mem.i = 0
    THEN { [ Begin |-> b.Begin, End |-> e.End, Size |-> z.Size ] :
             b \in { MemStats.LargestAnon, mem.local.Largest },
             e \in { MemStats.LargestAnon, mem.local.Largest },
             z \in { MemStats.LargestAnon, mem.local.Largest } }
    ELSE { MemStats.LargestAnon }

\* after the loads: the sentinel branch, or the lines that read LargestAnon
ReaderPrint ==
  /\ reader.pc = "load"
  /\ reader.i = Len(AtomicSeq)
  /\ \E l \in LargestAnonRead :
       reader' = [ reader EXCEPT
                     !.pc = "done",
                     !.Largest = IF reader.vals["TotalAnon"] = AllOnes THEN ZeroAnon ELSE l ]
  /\ UNCHANGED << samplerVars, smaps, MemStats, mem, published, ShuttingDown >>
  /\ UNCHANGED replayVars

\* HandleMemstats returns; its locals are gone
ReaderReturn ==
  /\ reader.pc = "done"
  /\ reader' = [ ReaderInit EXCEPT !.n = reader.n + 1 ]
  /\ UNCHANGED << samplerVars, smaps, MemStats, mem, published, ShuttingDown >>
  /\ UNCHANGED replayVars

\* main() at its exit label
MainExit ==
  /\ reader.pc = "idle"
  /\ ~ShuttingDown
  /\ ShuttingDown' = TRUE
  /\ UNCHANGED << samplerVars, smaps, MemStats, mem, reader, published >>
  /\ UNCHANGED replayVars

\* main() past its exit label: ResidentAnonThread.join() returns once the
\* worker's function has returned
MainJoin ==
  /\ pc = "exited"
  /\ ShuttingDown
  /\ mem.pc = "closed"
  /\ pc' = "joined"
  /\ UNCHANGED << regionVars, mapVars, setupVars, passVars, sampled_stats, JITData, Now,
                  HeaderOffset, n_passes, walk, watchVars, memVars >>
  /\ UNCHANGED replayVars

(***************************************************************************)
(* main() up to its loop.                                                  *)
(***************************************************************************)
\* the worker before std::thread ResidentAnonThread is constructed
MemUnstarted == [ MemInit EXCEPT !.pc = "unstarted" ]

\* g_stats and JITData as constructed, before main() has run, with the
\* observed process tgt, its region r and its smaps File
InitConstructed(r, tgt, File) ==
  /\ region = r
  /\ target = tgt
  /\ pidfd_watch = NoPidFd
  /\ live_map = 0
  /\ shm_size = 0
  /\ shm_base = 0
  /\ head = 0
  /\ thread_stats_size_to_copy = 0
  /\ cycle_counter_frequency = 0
  /\ hardware_concurrency = 0
  /\ sampled_stats = << >>
  /\ previous_sample_period = 0
  /\ FirstLoop = TRUE
  /\ max_thread_loads = << >>
  /\ fex_load_histogram = [i \in 1..HistogramSize |-> DEFAULT_HISTO]
  /\ JITData = JITDataInit
  /\ Now = 0
  /\ HeaderOffset = 0
  /\ pc = "start"
  /\ n_passes = 0
  /\ walk = WalkInit
  /\ smaps = File
  /\ MemStats = MemStatsInit
  /\ mem = MemUnstarted
  /\ reader = ReaderInit
  /\ published = { MemStatsInit }
  /\ ShuttingDown = FALSE
  /\ recording = NoRecording
  /\ replay = NoReplay

\* start-up checks that let a region of any length through
RegionUsable_AnySize(tgt, stat_ok) == tgt.shm_exists /\ stat_ok

\* shm_open succeeded, fstat succeeded and the object is not too small
RegionUsable(tgt, stat_ok) ==
  tgt.shm_exists /\ stat_ok /\ ~(tgt.st_size < MinRegionBytes)

\* if (g_stats.head->Version != STATS_VERSION) exit_screen(...)
VersionHandled(Version) == ~(Version # STATS_VERSION)

\* main() from its entry to the loop: stat_ok tells whether fstat succeeds,
\* m is what mmap returns, fd what pidfd_open returns
MainStart(stat_ok, m, freq, hw, fd) ==
  /\ pc = "start"
  /\ IF ~RegionUsable(target, stat_ok)
       THEN \* return 1
            /\ pc' = "failed"
            /\ UNCHANGED << pidfd_watch, mapVars, setupVars, mem >>
       ELSE /\ pidfd_watch' = fd
            /\ shm_size' = target.st_size
            /\ shm_base' = m
            /\ head' = m
            /\ live_map' = IF m = MAP_FAILED THEN 0 ELSE m
            /\ IF m = MAP_FAILED
                 THEN \* head->fex_version is read through MAP_FAILED
                      /\ pc' = "crashed"
                      /\ UNCHANGED << setupVars, mem >>
                 ELSE IF ~VersionHandled(region.Version)
                 THEN \* exit_screen("Unhandled FEX stats version\n")
                      /\ pc' = "failed"
                      /\ UNCHANGED << setupVars, mem >>
                 ELSE /\ thread_stats_size_to_copy' = CopySizeFor(region.ThreadStatsSize)
                      /\ cycle_counter_frequency' = freq
                      /\ hardware_concurrency' = hw
                      /\ mem' = MemInit
                      /\ pc' = "loop"
  /\ UNCHANGED << regionVars, passVars, sampled_stats, JITData, Now, HeaderOffset,
                  n_passes, walk, target, smaps, MemStats, reader, published,
                  ShuttingDown >>
  /\ UNCHANGED replayVars

(***************************************************************************)
(* Region contents.                                                        *)
(***************************************************************************)
\* counters of one thread: JIT time, signal time, SMC count, the rest 0
Profile(jit, sig, smc) ==
  [ f \in Counters |->
      CASE f = "AccumulatedJITTime" -> jit
        [] f = "AccumulatedSignalTime" -> sig
        [] f = "SMCCount" -> smc
        [] OTHER -> 0 ]

\* a well-formed region: the threads of list are linked in order from Head,
\* thread t has its record at Slot(t) and the counters ctr[t]
LinkedRegion(size, list, ctr) ==
  [ Version |-> STATS_VERSION,
    ThreadStatsSize |-> ThreadStatsBytes,
    Size |-> size,
    Head |-> IF list = << >> THEN 0 ELSE Slot(list[1]),
    Stats |->
      [ o \in { Slot(list[k]) : k \in 1..Len(list) } |->
          LET k == CHOOSE i \in 1..Len(list) : Slot(list[i]) = o
          IN [ f \in Fields |->
                 IF f = "Next" THEN (IF k < Len(list) THEN Slot(list[k + 1]) ELSE 0)
                 ELSE IF f = "TID" THEN list[k]
                 ELSE ctr[list[k]][f] ] ] ]

FullSize == HeaderBytes + 3 * ThreadStatsBytes

Bases == {1, 2}

\* steps of the steady clock between two loop iterations
DtSet == {0, SamplePeriod, StaleTimeout}

(***************************************************************************)
(* Spec: sampling passes over well-formed regions whose threads come, go   *)
(* and change their counters, forwards and backwards.                      *)
(***************************************************************************)
SampleRegions ==
  { LinkedRegion(FullSize, << >>, << Profile(0, 0, 0), Profile(0, 0, 0) >>) }
  \cup { LinkedRegion(FullSize, << 1 >>, << p, Profile(0, 0, 0) >>) :
           p \in { Profile(4, 0, 0), Profile(6, 1, 0), Profile(2, 1, 0) } }
  \cup { LinkedRegion(FullSize, << 1, 2 >>, << Profile(6, 1, 0), Profile(3, 0, 2) >>) }
  \cup { LinkedRegion(FullSize, << 2 >>, << Profile(0, 0, 0), Profile(3, 0, 2) >>) }

Init ==
  /\ \E r \in SampleRegions : InitMain(r, FullSize, 1, 10, 2, 0)
  /\ InitMemory(<< >>)

Next ==
  \/ \E d \in DtSet : Now + d <= MaxClock /\ LoopNotDue(d)
  \/ \E d \in DtSet : Now + d <= MaxClock /\ n_passes < MaxPasses /\ PassBegin(d, shm_base)
  \/ WalkEnd
  \/ WalkCopy
  \/ PassFinish
  \/ \E r \in SampleRegions : pc = "loop" /\ EmuWrite(r)

Spec == Init /\ [][Next]_vars

(***************************************************************************)
(* Properties of a finished pass.                                          *)
(***************************************************************************)
RECURSIVE SumOf(_, _)
SumOf(f, S) ==
  IF S = {} THEN 0
  ELSE LET x == CHOOSE y \in S : TRUE IN f[x] + SumOf(f, S \ {x})

\* the delta that never goes below zero
SaturatingDelta(cur, prev) == IF cur >= prev THEN cur - prev ELSE 0

\* a pass has finished and its frame stands in JITData
PassDone == pc = "loop" /\ n_passes > 0

\* C1: in a pass over threads that were all tracked before, each counter's
\* period total is the sum over the threads of (current - previous), taken as
\* 0 where current < previous, each counter on its own; and every retained
\* thread's previous counters are its current ones afterwards.
C1_RegressionClampsToZero ==
  (PassDone /\ walk.fresh = {}) =>
    /\ \A c \in Counters :
         JITData.TotalThisPeriod[c] =
           SumOf([ t \in DOMAIN walk.pre |->
                     SaturatingDelta(walk.pre[t].Stats[c], walk.pre[t].PreviousStats[c]) ],
                 DOMAIN walk.pre) % WordMod
    /\ \A t \in DOMAIN sampled_stats :
         \A c \in Counters : sampled_stats[t].PreviousStats[c] = sampled_stats[t].Stats[c]

\* C2: a thread seen for the first time adds nothing to the period totals,
\* whatever its counters are: the totals are the deltas of the threads tracked
\* before; the new thread's counters become its previous ones and its last
\* seen time is the time of the pass.
C2_FirstSightZeroDelta ==
  PassDone =>
    /\ \A c \in Counters :
         JITData.TotalThisPeriod[c] =
           SumOf([ t \in DOMAIN walk.pre \ walk.fresh |->
                     Sub64(walk.pre[t].Stats[c], walk.pre[t].PreviousStats[c]) ],
                 DOMAIN walk.pre \ walk.fresh) % WordMod
    /\ \A t \in walk.fresh \cap DOMAIN sampled_stats :
         /\ sampled_stats[t].LastSeen = Now
         /\ \A c \in Counters :
              sampled_stats[t].PreviousStats[c] = sampled_stats[t].Stats[c]

\* C10: the first pass leaves fex_load 0, sample_period 0, max_thread_loads
\* empty and the histogram as it was; every later pass shifts the histogram by
\* one and appends one entry.
C10_FirstPassLeavesDerivedFieldsEmpty ==
  [][ (pc = "accum" /\ pc' = "loop") =>
        IF n_passes = 0
          THEN /\ JITData'.fex_load = DZero
               /\ JITData'.sample_period = 0
               /\ max_thread_loads' = << >>
               /\ fex_load_histogram' = fex_load_histogram
          ELSE /\ Len(fex_load_histogram') = Len(fex_load_histogram)
               /\ SubSeq(fex_load_histogram', 1, Len(fex_load_histogram) - 1)
                    = Tail(fex_load_histogram) ]_vars

\* a first pass over a running thread, and a later pass that appended an
\* entry of non-zero load
C10_Witness ==
  /\ PassDone /\ n_passes >= 2
  /\ max_thread_loads # << >>
  /\ fex_load_histogram[HistogramSize].load_percentage # DZero
  /\ fex_load_histogram[HistogramSize - 1] = DEFAULT_HISTO

\* the delta of counter c the finished pass computed for thread t
DeltaOf(t, c) == Sub64(walk.pre[t].Stats[c], walk.pre[t].PreviousStats[c])

\* the sum over the threads of the finished pass of their deltas of counter c
DeltaSum(c) ==
  SumOf([ t \in DOMAIN walk.pre |-> DeltaOf(t, c) ], DOMAIN walk.pre) % WordMod

\* the cycles one core runs in the sample period of the finished pass
MaxCyclesOfPass ==
  MaximumCyclesInSamplePeriod(cycle_counter_frequency, JITData.sample_period)

\* min(hardware_concurrency, threads_sampled) of the finished pass
ActiveCores == Min(hardware_concurrency, JITData.threads_sampled)

\* C11: after every pass but the first, with active cores, fex_load is
\* 100 * (sum over the threads of the AccumulatedJITTime delta)
\*     / (max cycles of the period * min(hardware_concurrency, threads_sampled)).
C11_LoadIsJitTimeOverCapacity ==
  (PassDone /\ n_passes >= 2 /\ ActiveCores > 0) =>
    JITData.fex_load =
      DMul(DDiv(DInt(DeltaSum("AccumulatedJITTime")),
                DMul(MaxCyclesOfPass, DInt(ActiveCores))),
           DInt(100))

\* C12: a pass after the first on a machine reporting no hardware threads, or
\* that sampled no thread, leaves fex_load 0, and the load it pushes into the
\* histogram is 0: neither is infinite or not a number.
C12_NoCoresGivesZeroLoad ==
  (PassDone /\ n_passes >= 2 /\ ActiveCores = 0) =>
    /\ JITData.fex_load = DZero
    /\ fex_load_histogram[HistogramSize].load_percentage = DZero

\* C13: total_jit_time of a pass is the sum over the threads of the pass of
\* their AccumulatedJITTime delta.
C13_TotalJitTimeIsSumOfJitDeltas ==
  PassDone => JITData.total_jit_time = DeltaSum("AccumulatedJITTime")

\* C14: threads_sampled of a pass is the number of records its walk returned;
\* a thread still held in sampled_stats that the walk did not meet is not
\* counted.
C14_ThreadsSampledCountsWalkedRecords ==
  PassDone => JITData.threads_sampled = Cardinality(walk.tids)

\* C15: after every pass sampled_stats holds no thread last seen
\* StaleTimeout or longer before the pass: the pass erases exactly the entries
\* of that age and keeps the younger ones; a thread comes (back) into
\* sampled_stats only when a walk meets its record.
C15_StaleThreadsEvicted ==
  /\ [](PassDone =>
          \A t \in DOMAIN sampled_stats : Now - sampled_stats[t].LastSeen < StaleTimeout)
  /\ [][ (pc = "accum" /\ pc' = "loop") =>
           DOMAIN sampled_stats' =
             { t \in DOMAIN sampled_stats : Now - sampled_stats[t].LastSeen < StaleTimeout }
       ]_vars
  /\ [][ \A t \in DOMAIN sampled_stats' \ DOMAIN sampled_stats :
           pc = "walk" /\ t = StatFromOffset(region, HeaderOffset)["TID"] ]_vars

\* threads 1 and 2 were seen at t = 1, thread 2 again at t = 11: the pass at
\* t = 11 found both in sampled_stats and left thread 2 alone
C15_Witness ==
  /\ PassDone /\ Now = 1 + StaleTimeout
  /\ DOMAIN walk.pre = {1, 2}
  /\ walk.pre[1].LastSeen = 1
  /\ walk.tids = {2}
  /\ DOMAIN sampled_stats = {2}

\* C27: a pass starts only when the clock reading of the iteration is at
\* least SamplePeriod past the previous pass; an iteration that reads an
\* earlier time starts nothing and leaves the sampler's state alone; so each
\* pass after the first records a period of at least SamplePeriod, namely
\* the time since the previous pass, and the time of the last pass never
\* goes back.
C27_PassesAreAPeriodApart ==
  [][ /\ (pc = "loop" /\ pc' # "loop") =>
            Now' - previous_sample_period >= SamplePeriod
      /\ (pc = "loop" /\ ~(Now' - previous_sample_period >= SamplePeriod)) =>
            /\ pc' = "loop"
            /\ UNCHANGED << n_passes, sampled_stats, passVars, JITData, mapVars,
                            HeaderOffset, walk >>
      /\ n_passes' # n_passes =>
            /\ previous_sample_period' = Now
            /\ previous_sample_period' >= previous_sample_period
            /\ n_passes > 0 =>
                  /\ JITData'.sample_period = Now - previous_sample_period
                  /\ JITData'.sample_period >= SamplePeriod ]_vars

\* a pass exactly one period after the previous one has just finished: an
\* iteration that reads the same time finds no sample due
C27_Witness ==
  /\ pc = "loop"
  /\ n_passes = 2
  /\ JITData.sample_period = SamplePeriod
  /\ previous_sample_period = Now
  /\ ~SampleDue(Now, previous_sample_period)

\* C33, as stated: a finished pass has kept every entry it found with
\* Now - LastSeen <= StaleTimeout, the entry of exactly that age included.
C33_EntryOfExactAgeIsKept ==
  PassDone =>
    \A t \in DOMAIN walk.pre :
      (t \in DOMAIN sampled_stats) <=> ~(walk.pre[t].LastSeen < Now - StaleTimeout)

\* C33, amended: a finished pass has removed exactly the entries it found
\* with Now - LastSeen >= StaleTimeout: an entry of exactly that age is
\* removed, every younger one is kept with its fields as the pass left them.
C33_EntryOfExactAgeIsRemoved ==
  PassDone =>
    /\ DOMAIN sampled_stats \subseteq DOMAIN walk.pre
    /\ \A t \in DOMAIN walk.pre :
         IF Now - walk.pre[t].LastSeen < StaleTimeout
           THEN t \in DOMAIN sampled_stats
                  /\ sampled_stats[t].LastSeen = walk.pre[t].LastSeen
           ELSE t \notin DOMAIN sampled_stats

\* a pass found an entry last seen exactly StaleTimeout before and removed
\* it, and kept another
C33_Witness ==
  /\ PassDone
  /\ \E t \in DOMAIN walk.pre \ DOMAIN sampled_stats :
       Now - walk.pre[t].LastSeen = StaleTimeout
  /\ DOMAIN sampled_stats # {}

\* what the loop adds to total_time for the entry of tid as the walk left it
CyclesOf(stats, tid) ==
  accumulate(
    accumulate(0, stats[tid].Stats["AccumulatedJITTime"],
               stats[tid].PreviousStats["AccumulatedJITTime"]),
    stats[tid].Stats["AccumulatedSignalTime"],
    stats[tid].PreviousStats["AccumulatedSignalTime"])

\* C37: after every pass each retained thread's previous counters equal its
\* current ones; so the period totals and the total cycles of a pass are those
\* of the threads its walk copied, and a retained thread the walk did not
\* copy stands in the per-thread loads with 0 cycles.
C37_PreviousEqualsCurrentAfterPass ==
  PassDone =>
    /\ \A t \in DOMAIN sampled_stats :
         sampled_stats[t].PreviousStats = sampled_stats[t].Stats
    /\ \A c \in Counters :
         JITData.TotalThisPeriod[c] =
           SumOf([ t \in walk.tids |->
                     Sub64(walk.pre[t].Stats[c], walk.pre[t].PreviousStats[c]) ],
                 walk.tids) % WordMod
    /\ JITData.total_jit_time =
         SumOf([ t \in walk.tids |-> CyclesOf(walk.pre, t) ], walk.tids) % WordMod
    /\ LET keys == KeysInOrder(DOMAIN sampled_stats)
       IN JITData.hottest_threads =
            SortDesc([ i \in 1..Len(keys) |->
                         IF keys[i] \in walk.tids THEN CyclesOf(walk.pre, keys[i])
                         ELSE 0 ])

\* a pass kept a thread with counters other than 0 that its walk did not
\* copy, next to a thread whose counters moved
C37_Witness ==
  /\ PassDone
  /\ \E t \in DOMAIN sampled_stats \ walk.tids :
       sampled_stats[t].Stats["AccumulatedJITTime"] # 0
  /\ JITData.total_jit_time # 0

\* C39: after every pass, every tid the pass's walk copied is in
\* sampled_stats with LastSeen equal to the time of the pass.
C39_WalkedThreadIsNotEvicted ==
  PassDone =>
    \A t \in walk.tids :
      t \in DOMAIN sampled_stats /\ sampled_stats[t].LastSeen = Now

\* a pass at a time past the timeout copied a thread it had not seen for the
\* timeout, and evicted another one
C39_Witness ==
  /\ PassDone
  /\ Now >= StaleTimeout
  /\ \E t \in walk.tids \ walk.fresh : TRUE
  /\ \E t \in DOMAIN walk.pre : t \notin DOMAIN sampled_stats

(***************************************************************************)
(* SpecWalk: passes over regions whose header size, head offset and last   *)
(* next offset vary, while the emulator rewrites the region at any point   *)
(* of the walk and the kernel picks the address of every remap.            *)
(***************************************************************************)
\* an offset beyond every size the region takes
FarOffset == FullSize + ThreadStatsBytes

\* threads 1, 2, 3 at Slot(1), Slot(2), Slot(3), each linked to the next slot
\* and the third to last; thread i has run for i cycles
ChainRegion(size, first, last) ==
  [ Version |-> STATS_VERSION,
    ThreadStatsSize |-> ThreadStatsBytes,
    Size |-> size,
    Head |-> first,
    Stats |->
      [ o \in { Slot(i) : i \in 1..3 } |->
          LET i == CHOOSE k \in 1..3 : Slot(k) = o
          IN [ f \in Fields |->
                 IF f = "Next" THEN (IF i < 3 THEN Slot(i + 1) ELSE last)
                 ELSE IF f = "TID" THEN i
                 ELSE Profile(i, 0, 0)[f] ] ] ]

\* header sizes: 0, one record, one record and a part of the second, three
WalkSizes == { 0, Slot(2), Slot(3) - CopyTypeBytes, FullSize }

\* the list ends at 0, or, where the third record is mapped, at FarOffset
WalkRegions ==
  { ChainRegion(size, first, 0) : size \in WalkSizes, first \in { 0, Slot(1), FarOffset } }
  \cup { ChainRegion(FullSize, first, FarOffset) : first \in { 0, Slot(1), FarOffset } }

InitWalk ==
  /\ \E r \in WalkRegions : \E st_size \in { Slot(2), FullSize } :
       InitMain(r, st_size, 1, 10, 2, 0)
  /\ InitMemory(<< >>)

NextWalk ==
  \/ \E b \in Bases : n_passes < MaxWalkPasses /\ PassBegin(SamplePeriod, b)
  \/ WalkEnd
  \/ WalkCopy
  \/ WalkFault
  \/ PassFinish
  \/ \E r \in WalkRegions : EmuWrite(r)

SpecWalk == InitWalk /\ [][NextWalk]_vars

\* C3: every record a walk dereferences lies within the mapped size:
\* offset + record size <= shm_size at the time of the read.
C3_DereferencedRecordsInBounds ==
  \A o \in walk.offsets : o + thread_stats_size_to_copy <= shm_size

\* C4: no offset at or beyond shm_size is dereferenced; when the walk stands
\* at such an offset (the head's or a record's next) it can only end, keeping
\* the records copied so far; the step that follows the walk finishes the
\* pass and produces its frame, which counts every retained record.
C4_OutOfRangeOffsetEndsWalk ==
  /\ []( /\ \A o \in walk.offsets : o < shm_size
         /\ (pc = "walk" /\ HeaderOffset # 0 /\ HeaderOffset >= shm_size) =>
              /\ ENABLED WalkEnd
              /\ ~ENABLED WalkCopy
              /\ ~ENABLED WalkFault
         /\ pc = "accum" =>
              /\ walk.stop = HeaderOffset
              /\ walk.tids \subseteq DOMAIN sampled_stats )
  /\ [][ (pc = "walk" /\ pc' = "accum") => sampled_stats' = sampled_stats ]_vars
  /\ [][ (pc = "accum" /\ pc' # "accum") =>
           /\ pc' = "loop"
           /\ n_passes' = n_passes + 1
           /\ JITData'.threads_sampled = Cardinality(DOMAIN sampled_stats) ]_vars

\* a pass has finished whose walk copied a record and then met an offset
\* at or beyond the mapped size
C4_Witness ==
  /\ PassDone
  /\ walk.stop # 0 /\ walk.stop >= shm_size /\ walk.stop \notin walk.offsets
  /\ walk.offsets # {}
  /\ JITData.threads_sampled > 0

\* C6: the step that starts a pass leaves shm_size equal to the header's Size;
\* unless the remap fails the walk starts in that step, from the header's Head
\* and with base and head pointing at the live mapping; the walk reads only
\* below that size and stops only at 0 or at an offset not below it.
C6_ResizeSeenBySamePass ==
  /\ [][ (pc = "loop" /\ pc' # "loop")
         => ( /\ shm_size' = region.Size
              /\ region.Size # 0 =>
                   ( /\ pc' = "walk"
                     /\ shm_base' = live_map' /\ head' = live_map'
                     /\ HeaderOffset' = region.Head ) ) ]_vars
  /\ [][ (pc = "walk" /\ pc' = "walk") => shm_size' = shm_size ]_vars
  /\ []( pc \in {"walk", "accum"} =>
           /\ \A o \in walk.offsets : o < shm_size
           /\ pc = "accum" => (walk.stop = 0 \/ walk.stop >= shm_size) )

\* a finished pass that found the header's Size above the mapped size and
\* copied a record lying wholly at or beyond the old size
C6_Witness ==
  /\ PassDone
  /\ walk.old_size < shm_size
  /\ \E o \in walk.offsets :
       /\ o >= walk.old_size /\ RecordMapped(o, shm_size)
       /\ \E t \in walk.tids \cap DOMAIN sampled_stats : Slot(t) = o

\* C22: when a mapping has failed, main() has ended with an error: it has
\* not gone on to read the header or to walk through the failed mapping.
C22_MapFailureIsReported ==
  shm_base = MAP_FAILED => (pc = "failed" /\ walk.offsets = {})

(***************************************************************************)
(* SpecHist: a long session, one pass per sample period, over one thread   *)
(* whose counters only grow.                                               *)
(***************************************************************************)
HistRegions ==
  { LinkedRegion(FullSize, << 1 >>, << Profile(jit, 0, 0) >>) : jit \in { 4, 9 } }

\* no counter of a record goes backwards from region old to region new
Advances(old, new) ==
  /\ DOMAIN new.Stats = DOMAIN old.Stats
  /\ \A o \in DOMAIN old.Stats : \A c \in Counters : new.Stats[o][c] >= old.Stats[o][c]

InitHist ==
  /\ InitMain(LinkedRegion(FullSize, << 1 >>, << Profile(4, 0, 0) >>), FullSize, 1, 3, 2, 0)
  /\ InitMemory(<< >>)

NextHist ==
  \/ n_passes < MaxHistPasses /\ PassBegin(SamplePeriod, shm_base)
  \/ WalkEnd
  \/ WalkCopy
  \/ PassFinish
  \/ \E r \in HistRegions : Advances(region, r) /\ EmuWrite(r)

SpecHist == InitHist /\ [][NextHist]_vars

\* C8: the histogram always holds HistogramSize entries; each pass after the
\* first drops the entry at the front, keeps the others in their order and
\* appends one entry, whose load_percentage is the pass's fex_load as a float.
C8_HistogramIsRingOf200 ==
  /\ [](Len(fex_load_histogram) = HistogramSize)
  /\ [][ (pc = "accum" /\ pc' = "loop" /\ n_passes >= 1) =>
           /\ fex_load_histogram' =
                Append(Tail(fex_load_histogram), fex_load_histogram'[HistogramSize])
           /\ fex_load_histogram'[HistogramSize].load_percentage
                = ToFloat(JITData'.fex_load) ]_vars

\* more passes than the histogram has entries have run, and the entry of an
\* early pass that saw load has moved to the front
C8_Witness ==
  /\ PassDone /\ n_passes > HistogramSize + 1
  /\ fex_load_histogram[1].high_jit_load
  /\ fex_load_histogram[1].load_percentage # DZero
  /\ fex_load_histogram[HistogramSize].load_percentage = DZero

\* C9 as stated: after the n-th pass, n >= 2, the histogram has
\* min(n - 1, 200) entries.
C9_HistogramLengthIsPassCount ==
  (PassDone /\ n_passes >= 2) =>
    Len(fex_load_histogram) = Min(n_passes - 1, HistogramSize)

\* the entry pushed by the pass whose frame stands in JITData
LastEntry ==
  HistogramEntry(JITData,
                 MaximumCyclesInSamplePeriod(cycle_counter_frequency, JITData.sample_period))

\* C9 amended: after the n-th pass the histogram has 200 entries, of which
\* the first 200 - min(n - 1, 200) are still the default entries and, for
\* n >= 2, the last is the entry of the n-th pass.
C9_HistogramFilledByPassCount ==
  PassDone =>
    /\ Len(fex_load_histogram) = HistogramSize
    /\ \A i \in 1..(HistogramSize - Min(n_passes - 1, HistogramSize)) :
         fex_load_histogram[i] = DEFAULT_HISTO
    /\ n_passes >= 2 => fex_load_histogram[HistogramSize] = LastEntry

\* the second pass has appended the first entry written by a pass, of
\* non-zero load, behind 199 default entries
C9_Witness ==
  /\ PassDone /\ n_passes = 2
  /\ fex_load_histogram[HistogramSize] # DEFAULT_HISTO
  /\ \A i \in 1..(HistogramSize - 1) : fex_load_histogram[i] = DEFAULT_HISTO

(***************************************************************************)
(* SpecLoads: passes over few and over many threads, on machines of few    *)
(* and of many hardware threads.                                           *)
(***************************************************************************)
ManyThreads == MaxActiveThreadsCap + 1

\* a region with room for ManyThreads records
WideSize == HeaderBytes + ManyThreads * ThreadStatsBytes

\* threads 1..n, linked in order; thread t has run for t cycles
BusyRegion(n) ==
  LinkedRegion(WideSize, [ t \in 1..n |-> t ], [ t \in 1..n |-> Profile(t, 0, 0) ])

LoadRegions == { BusyRegion(n) : n \in { 0, 2, MaxActiveThreadsCap, ManyThreads } }

\* values of std::thread::hardware_concurrency()
LoadHardware == { 0, 1, MaxActiveThreadsCap, 2 * MaxActiveThreadsCap }

InitLoads ==
  /\ \E r \in LoadRegions : \E hw \in LoadHardware : InitMain(r, WideSize, 1, 10, hw, 0)
  /\ InitMemory(<< >>)

NextLoads ==
  \/ n_passes < MaxLoadPasses /\ PassBegin(SamplePeriod, shm_base)
  \/ WalkEnd
  \/ WalkCopy
  \/ PassFinish
  \/ \E r \in LoadRegions : pc = "loop" /\ EmuWrite(r)

SpecLoads == InitLoads /\ [][NextLoads]_vars

\* C7: the per-thread load list never has more than
\* min(hardware_concurrency, 32) entries.
C7_ThreadLoadsCappedAt32 ==
  Len(max_thread_loads) <= Min(hardware_concurrency, MaxActiveThreadsCap)

\* the sort key of thread t in the finished pass: its AccumulatedJITTime
\* delta plus its AccumulatedSignalTime delta
LoadKey(t) ==
  Add64(DeltaOf(t, "AccumulatedJITTime"), DeltaOf(t, "AccumulatedSignalTime"))

\* the threads the finished pass kept
ThreadsOfPass == DOMAIN walk.pre \cap DOMAIN sampled_stats

\* C16: after a pass that is not the first, max_thread_loads is in
\* non-increasing order of the key, has
\* min(hardware_concurrency, 32, number of threads) entries, and its i-th
\* entry carries the i-th largest key of the pass's threads.
C16_ThreadLoadsAreTopByKey ==
  (PassDone /\ n_passes >= 2) =>
    /\ Len(max_thread_loads) =
         Min(Min(hardware_concurrency, MaxActiveThreadsCap), Cardinality(ThreadsOfPass))
    /\ \A i \in 1..(Len(max_thread_loads) - 1) :
         max_thread_loads[i].TotalCycles >= max_thread_loads[i + 1].TotalCycles
    /\ \A i \in 1..Len(max_thread_loads) :
         /\ Cardinality({ t \in ThreadsOfPass :
                            LoadKey(t) > max_thread_loads[i].TotalCycles }) <= i - 1
         /\ Cardinality({ t \in ThreadsOfPass :
                            LoadKey(t) >= max_thread_loads[i].TotalCycles }) >= i

(***************************************************************************)
(* SpecFlags: two threads whose counters only grow and whose period totals *)
(* stand below, at and above the thresholds of the histogram flags.        *)
(***************************************************************************)
\* counters of one thread, with its SIGBUS and soft-float counts
FlagProfile(jit, sig, smc, sigbus, soft) ==
  [ Profile(jit, sig, smc) EXCEPT !["SIGBUSCount"] = sigbus,
                                  !["FloatFallbackCount"] = soft ]

\* cycles of one core in one sample period under SpecFlags
FlagFrequency == 10

\* SMC, SIGBUS and soft-float counts of the first thread: each flag's count
\* at its threshold while another's is one short of its own
FlagCounts ==
  { << 0, 0, 0 >>,
    << SMCThreshold - 1, SIGBUSThreshold, SoftfloatThreshold - 1 >>,
    << SMCThreshold, SIGBUSThreshold - 1, SoftfloatThreshold >>,
    << SMCThreshold, SIGBUSThreshold, SoftfloatThreshold >> }

\* the second thread adds one cycle of signal time and one SMC, or nothing
FlagRegions ==
  { LinkedRegion(FullSize, << 1, 2 >>,
                 << FlagProfile(jit, 0, c[1], c[2], c[3]), FlagProfile(0, one, one, 0, 0) >>) :
      jit \in { FlagFrequency - 1, FlagFrequency },
      c \in FlagCounts,
      one \in { 0, 1 } }

InitFlags ==
  /\ InitMain(LinkedRegion(FullSize, << 1, 2 >>,
                           << FlagProfile(0, 0, 0, 0, 0), FlagProfile(0, 0, 0, 0, 0) >>),
              FullSize, 1, FlagFrequency, 2, 0)
  /\ InitMemory(<< >>)

NextFlags ==
  \/ n_passes < MaxFlagPasses /\ PassBegin(SamplePeriod, shm_base)
  \/ WalkEnd
  \/ WalkCopy
  \/ PassFinish
  \/ \E r \in FlagRegions : pc = "loop" /\ Advances(region, r) /\ EmuWrite(r)

SpecFlags == InitFlags /\ [][NextFlags]_vars

\* the entry the finished pass pushed
NewestEntry == fex_load_histogram[HistogramSize]

WatchRegions ==
  { LinkedRegion(FullSize, << 1 >>, << Profile(jit, 0, 0) >>) : jit \in { 4, 9 } }

InitWatch ==
  /\ \E fd \in { PidFd, NoPidFd } :
       InitLoop(LinkedRegion(FullSize, << 1 >>, << Profile(4, 0, 0) >>), FullSize, 1, 10, 2,
                0, fd)
  /\ InitMemory(<< >>)

NextWatch ==
  \/ LoopNotDue(0)
  \/ n_passes < MaxWatchPasses /\ PassBegin(SamplePeriod, shm_base)
  \/ WalkEnd
  \/ WalkCopy
  \/ PassFinish
  \/ LoopExit
  \/ \E unlinked \in BOOLEAN : TargetExits(unlinked)
  \/ \E r \in WatchRegions : target.running /\ EmuWrite(r)

SpecWatch == InitWatch /\ [][NextWatch]_vars

\* the observed process has exited and main() holds a descriptor that tells
ExitVisible == pidfd_watch # NoPidFd /\ ~target.running

\* C19: a loop iteration starts a pass only if its poll, which comes first,
\* did not find the observed process gone; an iteration whose poll finds it
\* gone leaves the loop; after that no pass runs and nothing of the frame
\* changes.
C19_ExitPollPrecedesSampling ==
  /\ [][ (pc = "loop" /\ pc' \notin {"loop", "exited"}) => ~ExitVisible ]_vars
  /\ [][ (pc = "loop" /\ ExitVisible) =>
           /\ pc' \in {"loop", "exited"}
           /\ n_passes' = n_passes /\ JITData' = JITData /\ Now' = Now ]_vars
  /\ [][ (pc = "loop" /\ pc' = "exited") => (ExitVisible /\ ShuttingDown') ]_vars
  /\ [][ pc = "exited" =>
           /\ pc' = "exited"
           /\ n_passes' = n_passes
           /\ JITData' = JITData
           /\ sampled_stats' = sampled_stats
           /\ fex_load_histogram' = fex_load_histogram ]_vars

\* the observed process exited after a pass, before the bound on the passes
\* was reached, and the loop has left
C19_Witness ==
  /\ pc = "exited"
  /\ n_passes >= 1 /\ n_passes < MaxWatchPasses
  /\ ExitVisible
  /\ ShuttingDown

\* C20: without a descriptor of the observed process the loop looks for the
\* region instead: an iteration that starts when the region's name is gone
\* starts no pass.
C20_FallbackToRegionPresence ==
  [][ (pc = "loop" /\ pidfd_watch = NoPidFd /\ ~target.shm_exists) =>
        pc' \in {"loop", "exited"} ]_vars

(***************************************************************************)
(* SpecMem: the memory worker and the reader of MemStats run side by side  *)
(* while the observed process changes its mappings.                        *)
(***************************************************************************)
\* `b-e ---p ... [anon:name]`
MapLine(marks, b, e) ==
  [ marks |-> marks, ranged |-> TRUE, Begin |-> b, End |-> e, Size |-> 0, Granule |-> "" ]

\* `Rss:    n kB`
RssLine(n) ==
  [ marks |-> {"Rss"}, ranged |-> FALSE, Begin |-> 0, End |-> 0, Size |-> n,
    Granule |-> "kB" ]

VmFlagsLine ==
  [ marks |-> {"VmFlags"}, ranged |-> FALSE, Begin |-> 0, End |-> 0, Size |-> 0,
    Granule |-> "" ]

\* a JIT mapping with jit kB resident and an allocator mapping at [b, e)
\* with anon kB resident
SmapsOf(jit, b, e, anon) ==
  << MapLine({"FEXMem", "FEXMemJIT"}, 16, 32), RssLine(jit), VmFlagsLine,
     MapLine({"JEMalloc"}, b, e), RssLine(anon), VmFlagsLine >>

SmapsFiles == { SmapsOf(8, 64, 96, 4), SmapsOf(12, 128, 192, 16), SmapsOf(0, 64, 96, 0) }

InitMem ==
  /\ InitMain(LinkedRegion(FullSize, << >>, << >>), FullSize, 1, 10, 2, 0)
  /\ \E f \in SmapsFiles : InitMemory(f)

NextMem ==
  \/ mem.n < MaxMemPasses /\ MemSample
  \/ MemReadFails
  \/ MemStore
  \/ MemWake
  \/ MemExit
  \/ \E f \in SmapsFiles : mem.pc = "loop" /\ mem.n < MaxMemPasses /\ SmapsChange(f)
  \/ reader.n < MaxReads /\ ReaderLoad
  \/ ReaderPrint
  \/ ReaderReturn
  \/ MainExit

SpecMem == InitMem /\ [][NextMem]_vars

\* C5: the fields one call of HandleMemstats reads are the fields of one
\* snapshot stored completely by the worker (or of the initial, uninitialised
\* one); the call that finds the sentinel reads the atomics only.
C5_ReadIsOnePublishedSnapshot ==
  reader.pc = "done" =>
    \E snap \in published :
      /\ snap.atomics = reader.vals
      /\ reader.vals["TotalAnon"] # AllOnes => snap.LargestAnon = reader.Largest

\* C38: a call of HandleMemstats that loads a total other than the
\* uninitialised sentinel ~0 loads every category total of the same call as
\* other than the sentinel too.
C38_PublishedTotalHasPublishedCategories ==
  (reader.pc = "done" /\ reader.vals["TotalAnon"] # AllOnes) =>
    \A a \in Atomics : reader.vals[a] # AllOnes

(***************************************************************************)
(* SpecStart: main() from its entry, for regions that are missing, too     *)
(* small, of another version, or in order, and mappings that fail.         *)
(***************************************************************************)
\* a region of the expected version and one of an older version
StartRegions ==
  { [ LinkedRegion(FullSize, << 1 >>, << Profile(4, 0, 0) >>) EXCEPT !.Version = v ] :
      v \in { STATS_VERSION, STATS_VERSION - 1 } }

\* sizes fstat reports for the region's object
StartSizes == { 0, MinRegionBytes - 1, MinRegionBytes, FullSize }

StartTargets ==
  { [ TargetInit(sz) EXCEPT !.shm_exists = e ] : sz \in StartSizes, e \in BOOLEAN }

InitStart ==
  \E r \in StartRegions : \E tgt \in StartTargets :
    InitConstructed(r, tgt, SmapsOf(8, 64, 96, 4))

NextStart ==
  \/ \E stat_ok \in BOOLEAN : \E m \in { 1, MAP_FAILED } : \E fd \in { PidFd, NoPidFd } :
       MainStart(stat_ok, m, 10, 2, fd)
  \/ n_passes < MaxStartPasses /\ PassBegin(SamplePeriod, 1)
  \/ WalkEnd
  \/ WalkCopy
  \/ PassFinish
  \/ mem.n < MaxMemPasses /\ MemSample
  \/ MemStore
  \/ MemWake

SpecStart == InitStart /\ [][NextStart]_vars

\* the region is missing, shorter than 32 bytes, or of another version
StartMustFail ==
  \/ ~target.shm_exists
  \/ target.st_size < MinRegionBytes
  \/ region.Version # STATS_VERSION

\* C21: with the region missing, shorter than 32 bytes or of another version,
\* main() never reaches its loop: no pass runs, nothing is sampled, the memory
\* worker is never started, and main() ends by returning or through
\* exit_screen (unless the mapping itself failed before the version was read).
C21_BadRegionFailsStart ==
  StartMustFail =>
    /\ pc \in {"start", "failed", "crashed"}
    /\ n_passes = 0
    /\ walk = WalkInit
    /\ sampled_stats = << >>
    /\ mem = MemUnstarted
    /\ MemStats = MemStatsInit
    /\ (pc # "start" /\ shm_base # MAP_FAILED) => pc = "failed"

\* main() has ended on a mapped region of another version, long enough
C21_Witness ==
  /\ pc = "failed"
  /\ target.shm_exists /\ target.st_size >= MinRegionBytes
  /\ region.Version # STATS_VERSION
  /\ shm_base = live_map /\ live_map # 0


(***************************************************************************)
(* SpecSmaps: the memory worker alone, pass after pass, over memory maps   *)
(* of one or two mapping blocks of every tagged and untagged kind.         *)
(***************************************************************************)
\* names of mappings: the named-anonymous regions of the emulator, its
\* allocator's two names, and a mapping of no interest
MapNames ==
  { "FEXMemJIT", "FEXMem_OpDispatcher", "FEXMem_Frontend", "FEXMem_CPUBackend",
    "FEXMem_Lookup_L1", "FEXMem_Lookup", "FEXMem_ThreadState", "FEXMem_BlockLinks",
    "FEXMem_Misc", "FEXMem", "JEMalloc", "FEXAllocator", "libc.so" }

\* the needles of the parser that occur in a name: find() looks for a
\* substring, so FEXMem occurs in every FEXMem name and FEXMem_Lookup in
\* FEXMem_Lookup_L1
NeedlesIn(name) ==
  IF name = "libc.so" THEN {}
  ELSE IF name \in {"JEMalloc", "FEXAllocator"} THEN { name }
  ELSE IF name = "FEXMem_Lookup_L1" THEN { "FEXMem", "FEXMem_Lookup", name }
  ELSE { "FEXMem", name }

\* `Size:    n kB`
SizeLine(n) ==
  [ marks |-> {"Size"}, ranged |-> FALSE, Begin |-> 0, End |-> 0, Size |-> n,
    Granule |-> "kB" ]

\* one mapping block of smaps: header, Size, Rss, VmFlags
Block(name, b, e, rss) ==
  << MapLine(NeedlesIn(name), b, e), SizeLine(16), RssLine(rss), VmFlagsLine >>

BlockLines == 4

FirstBlocks == { Block(n, 64, 96, r) : n \in MapNames, r \in {0, 4} }

SecondBlocks == { Block(n, 128, 192, 8) : n \in MapNames }

\* the maps the worker finds at its first pass
SmapsInputs == FirstBlocks \cup { a \o b : a \in FirstBlocks, b \in SecondBlocks }

\* the maps of later passes: nothing of interest resident, nothing resident
\* at all, and two tagged blocks
SmapsLater ==
  { Block("libc.so", 64, 96, 4),
    Block("FEXAllocator", 64, 96, 0),
    Block("FEXMem_Misc", 64, 96, 4) \o Block("JEMalloc", 128, 192, 8) }

InitSmaps ==
  /\ InitMain(LinkedRegion(FullSize, << >>, << >>), FullSize, 1, 10, 2, 0)
  /\ \E f \in SmapsInputs : InitMemory(f)

NextSmaps ==
  \/ mem.n < MaxSmapsPasses /\ MemSample
  \/ MemStore
  \/ MemWake
  \/ \E f \in SmapsLater : mem.pc = "loop" /\ 0 < mem.n /\ mem.n < MaxSmapsPasses /\ SmapsChange(f)

SpecSmaps == InitSmaps /\ [][NextSmaps]_vars

\* the pass in progress, or the last one, parsed a total of zero
ZeroPass == mem.n > 0 /\ mem.local.totals["TotalAnon"] = 0

\* C23: a pass whose parsed total is zero stores nothing: from its parse to
\* the end of its sleep no field of MemStats changes and it never reaches the
\* stores, so that between passes MemStats is the sentinel or a snapshot
\* stored by a pass with a total other than zero.
C23_ZeroTotalPublishesNothing ==
  /\ [][ ((mem.pc = "loop" /\ mem'.pc # "loop" /\ mem'.local.totals["TotalAnon"] = 0)
           \/ (mem.pc \in {"store", "sleep"} /\ ZeroPass))
          => (MemStats' = MemStats /\ published' = published
              /\ mem'.pc \in {"sleep", "loop"}) ]_vars
  /\ [](mem.pc \in {"loop", "sleep"} =>
          \/ MemStats = MemStatsInit
          \/ MemStats \in published /\ MemStats.atomics["TotalAnon"] # 0)

\* a pass over a map with resident memory but none of interest, after a
\* pass that stored
C23_Witness ==
  /\ mem.pc = "sleep"
  /\ mem.n = 2
  /\ ZeroPass
  /\ smaps = Block("libc.so", 64, 96, 4)
  /\ MemStats # MemStatsInit
  /\ MemStats.atomics["TotalAnon"] # 0

RECURSIVE SumCategories(_, _)
\* the sum of the categories AtomicSeq[i..], TotalAnon being AtomicSeq[1]
SumCategories(t, i) ==
  IF i > Len(AtomicSeq) THEN 0 ELSE Add64(t[AtomicSeq[i]], SumCategories(t, i + 1))

\* C24: in the snapshot a pass computes, and in every snapshot stored,
\* TotalAnon is the sum of the eleven categories.
C24_TotalIsSumOfCategories ==
  /\ mem.n > 0 => mem.local.totals["TotalAnon"] = SumCategories(mem.local.totals, 2)
  /\ \A snap \in published \ { MemStatsInit } :
       snap.atomics["TotalAnon"] = SumCategories(snap.atomics, 2)

\* a stored snapshot with two categories that are not zero
C24_Witness ==
  /\ mem.pc = "sleep"
  /\ MemStats = SnapshotOf(mem.local)
  /\ mem.local.totals["LookupL1"] = 4096
  /\ mem.local.totals["JEMalloc"] = 8192
  /\ mem.local.totals["TotalAnon"] = 12288

\* the table of tags in its order, with the category of each
TagTable ==
  << << "FEXMemJIT", "JITCode" >>, << "FEXMem_OpDispatcher", "OpDispatcher" >>,
     << "FEXMem_Frontend", "Frontend" >>, << "FEXMem_CPUBackend", "CPUBackend" >>,
     << "FEXMem_Lookup_L1", "LookupL1" >>, << "FEXMem_Lookup", "Lookup" >>,
     << "FEXMem_ThreadState", "ThreadStates" >>, << "FEXMem_BlockLinks", "BlockLinks" >>,
     << "FEXMem_Misc", "Misc" >>, << "FEXMem", "Unaccounted" >>,
     << "JEMalloc", "JEMalloc" >>, << "FEXAllocator", "JEMalloc" >> >>

\* the category of the first tag of the table found in a name, if any
CategoryByTable(needles) ==
  LET hits == { i \in 1..Len(TagTable) : TagTable[i][1] \in needles }
  IN IF hits = {} THEN "none"
     ELSE TagTable[CHOOSE i \in hits : \A j \in hits : i <= j][2]

RECURSIVE ResidentByTable(_, _, _)
\* the resident bytes of the blocks k.. of File whose name the table gives
\* category c
ResidentByTable(File, c, k) ==
  IF k * BlockLines > Len(File) THEN 0
  ELSE LET header == File[(k - 1) * BlockLines + 1]
           rss == File[(k - 1) * BlockLines + 3]
       IN Add64(IF CategoryByTable(header.marks) = c THEN (rss.Size * 1024) % WordMod ELSE 0,
                ResidentByTable(File, c, k + 1))

\* C25: after the parse of a map, each category holds the resident bytes of
\* exactly the blocks whose name has, as its first tag in table order, a tag
\* of that category; a block with no tag is in no category.
C25_FirstTagDecidesCategory ==
  mem.pc \in {"store", "sleep"} =>
    \A c \in Atomics \ { "TotalAnon" } :
      mem.local.totals[c] = ResidentByTable(smaps, c, 1)

\* a FEXMem_Lookup_L1 block followed by an untagged block with resident memory
C25_Witness ==
  /\ mem.pc = "sleep"
  /\ Len(smaps) = 2 * BlockLines
  /\ "FEXMem_Lookup_L1" \in smaps[1].marks
  /\ smaps[3].Size = 4
  /\ smaps[BlockLines + 1].marks = {}
  /\ smaps[BlockLines + 3].Size = 8
  /\ mem.local.totals["LookupL1"] = 4096
  /\ mem.local.totals["Lookup"] = 0
  /\ mem.local.totals["TotalAnon"] = 4096


(***************************************************************************)
(* SpecShutdown: the worker runs its passes while the observed process     *)
(* exits and main() leaves its loop, sets the flag and joins the worker.   *)
(* The worker's stores and its sleep return, its loop test is made, and    *)
(* join returns once the worker has: weak fairness of these steps.         *)
(***************************************************************************)
InitShutdown ==
  /\ InitMain(LinkedRegion(FullSize, << >>, << >>), FullSize, 1, 10, 2, 0)
  /\ \E f \in SmapsLater : InitMemory(f)

NextShutdown ==
  \/ mem.n < MaxShutdownPasses /\ MemSample
  \/ mem.n < MaxShutdownPasses /\ MemReadFails
  \/ MemStore
  \/ MemWake
  \/ MemExit
  \/ \E unlinked \in BOOLEAN : TargetExits(unlinked)
  \/ LoopExit
  \/ MainJoin

SpecShutdown ==
  /\ InitShutdown
  /\ [][NextShutdown]_vars
  /\ WF_vars(MemStore)
  /\ WF_vars(MemWake)
  /\ WF_vars(MemExit)
  /\ WF_vars(MainJoin)

\* C26: once ShuttingDown is set the worker starts no pass, its function
\* returns, and the join of main() returns.
C26_WorkerStopsAfterShutdown ==
  /\ [][ShuttingDown => mem'.n = mem.n]_vars
  /\ (ShuttingDown ~> mem.pc = "closed")
  /\ (ShuttingDown ~> pc = "joined")

\* C35: a read of the memory map that fails ends the pass and not the
\* worker: the worker's function returns only after the shutdown flag is set.
C35_WorkerEndsOnlyOnShutdown == mem.pc = "closed" => ShuttingDown

\* main() has joined a worker that ran two passes and stored
C26_Witness ==
  /\ pc = "joined"
  /\ mem.pc = "closed"
  /\ mem.n = MaxShutdownPasses
  /\ mem.i = Len(AtomicSeq) + 1
  /\ MemStats = SnapshotOf(mem.local)


(***************************************************************************)
(* The recording: its file format, RecordingWriter, RecordingReader and    *)
(* ReplaySource. Bytes are the numbers 0..255.                             *)
(***************************************************************************)
\* "WTFR"
MAGIC == << 87, 84, 70, 82 >>

FORMAT_VERSION == 1

\* "WEOF"
EOF_MARKER == << 87, 69, 79, 70 >>

RECURSIVE Varint(_)
\* an integer of the serialisation: seven bits a byte, the low ones first,
\* the top bit set on every byte but the last
Varint(n) ==
  IF n < 128 THEN << n >> ELSE << 128 + (n % 128) >> \o Varint(n \div 128)

RECURSIVE ReadVarint(_, _)
\* the integer that starts at pos, and the position after it
ReadVarint(bytes, pos) ==
  IF pos > Len(bytes) THEN [ ok |-> FALSE, val |-> 0, pos |-> pos ]
  ELSE IF bytes[pos] < 128 THEN [ ok |-> TRUE, val |-> bytes[pos], pos |-> pos + 1 ]
  ELSE LET rest == ReadVarint(bytes, pos + 1)
       IN [ rest EXCEPT !.val = (bytes[pos] - 128) + 128 * rest.val ]

\* a length prefix with its most significant byte first
U32BE(n) ==
  << (n \div 16777216) % 256, (n \div 65536) % 256, (n \div 256) % 256, n % 256 >>

\* frame_len(u32), little-endian
U32LE(n) ==
  << n % 256, (n \div 256) % 256, (n \div 65536) % 256, (n \div 16777216) % 256 >>

ReadU32LE(bytes, pos) ==
  bytes[pos] + 256 * bytes[pos + 1] + 65536 * bytes[pos + 2] + 16777216 * bytes[pos + 3]

RECURSIVE EncodeDeltas(_)
\* the raw deltas of a frame, one after the other
EncodeDeltas(ds) ==
  IF ds = << >> THEN << >>
  ELSE Varint(Head(ds).tid) \o Varint(Head(ds).jit_time) \o EncodeDeltas(Tail(ds))

\* a frame, its fields in declared order, no field tags; a list is its length
\* and its elements
EncodeFrame(f) ==
  Varint(f.timestamp) \o Varint(f.sample_period) \o Varint(f.total_jit_count)
    \o Varint(Len(f.per_thread_deltas)) \o EncodeDeltas(f.per_thread_deltas)

EncodeMetadata(md) ==
  Varint(md.pid) \o Varint(Len(md.fex_version)) \o md.fex_version
    \o Varint(md.stats_version) \o Varint(md.cycle_counter_frequency)
    \o Varint(md.hardware_concurrency)

RECURSIVE DecodeDeltas(_, _, _)
DecodeDeltas(bytes, pos, n) ==
  IF n = 0 \/ pos > Len(bytes) THEN [ ok |-> n = 0, val |-> << >>, pos |-> pos ]
  ELSE LET tid == ReadVarint(bytes, pos)
           jit == ReadVarint(bytes, tid.pos)
           rest == DecodeDeltas(bytes, jit.pos, n - 1)
       IN [ ok |-> tid.ok /\ jit.ok /\ rest.ok,
            val |-> << [ tid |-> tid.val, jit_time |-> jit.val ] >> \o rest.val,
            pos |-> rest.pos ]

\* the frame that is the whole of bytes
DecodeFrame(bytes) ==
  LET ts == ReadVarint(bytes, 1)
      sp == ReadVarint(bytes, ts.pos)
      jc == ReadVarint(bytes, sp.pos)
      n == ReadVarint(bytes, jc.pos)
      ds == DecodeDeltas(bytes, n.pos, n.val)
  IN [ ok |-> ts.ok /\ sp.ok /\ jc.ok /\ n.ok /\ ds.ok /\ ds.pos = Len(bytes) + 1,
       val |-> [ timestamp |-> ts.val, sample_period |-> sp.val,
                 total_jit_count |-> jc.val, per_thread_deltas |-> ds.val ] ]

\* the session metadata that is the whole of bytes
DecodeMetadata(bytes) ==
  LET pid == ReadVarint(bytes, 1)
      vl == ReadVarint(bytes, pid.pos)
      after == vl.pos + vl.val
      sv == ReadVarint(bytes, after)
      fq == ReadVarint(bytes, sv.pos)
      hw == ReadVarint(bytes, fq.pos)
  IN [ ok |-> pid.ok /\ vl.ok /\ after <= Len(bytes) + 1 /\ sv.ok /\ fq.ok /\ hw.ok
              /\ hw.pos = Len(bytes) + 1,
       val |-> [ pid |-> pid.val,
                 fex_version |-> IF vl.ok /\ after <= Len(bytes) + 1
                                   THEN SubSeq(bytes, vl.pos, after - 1) ELSE << >>,
                 stats_version |-> sv.val, cycle_counter_frequency |-> fq.val,
                 hardware_concurrency |-> hw.val ] ]

\* the length of the run of equal bytes at the head of bytes, 255 at most
RunOf(bytes) ==
  Min(255, CHOOSE k \in 1..Len(bytes) :
             /\ \A j \in 1..k : bytes[j] = bytes[1]
             /\ k = Len(bytes) \/ bytes[k + 1] # bytes[1])

RECURSIVE Compress(_)
\* the streaming compressor, stood in for by a run-length code: lossless, and
\* not the identity
Compress(bytes) ==
  IF bytes = << >> THEN << >>
  ELSE << RunOf(bytes), bytes[1] >>
         \o Compress(SubSeq(bytes, RunOf(bytes) + 1, Len(bytes)))

RECURSIVE Decompress(_)
Decompress(c) ==
  IF Len(c) < 2 THEN << >>
  ELSE [ i \in 1..c[1] |-> c[2] ] \o Decompress(SubSeq(c, 3, Len(c)))

\* MAGIC(4) | FORMAT_VERSION(1) | the rest through the compressor
FileOf(stream) == MAGIC \o << FORMAT_VERSION >> \o Compress(stream)

\* RecordingWriter::create: the header is written
WriterCreate(md) ==
  /\ recording.state = "none"
  /\ LET m == EncodeMetadata(md)
         stream == Varint(Len(m)) \o m
     IN recording' = [ state |-> "writing", metadata |-> md, written |-> << >>,
                       stream |-> stream, file |-> FileOf(stream) ]
  /\ UNCHANGED << samplerVars, memVars, replay >>

\* RecordingWriter::write_frame: the length of the frame, then the frame
WriteFrame(f) ==
  /\ recording.state = "writing"
  /\ recording.written # << >> =>
       recording.written[Len(recording.written)].timestamp <= f.timestamp
  /\ LET e == EncodeFrame(f)
         stream == recording.stream \o U32LE(Len(e)) \o e
     IN recording' = [ recording EXCEPT !.written = Append(@, f), !.stream = stream,
                                        !.file = FileOf(stream) ]
  /\ UNCHANGED << samplerVars, memVars, replay >>

\* RecordingWriter::finish: EOF_MARKER, flush, close
WriterFinish ==
  /\ recording.state = "writing"
  /\ recording' = [ recording EXCEPT !.state = "finished",
                                     !.stream = @ \o EOF_MARKER,
                                     !.file = FileOf(recording.stream \o EOF_MARKER) ]
  /\ UNCHANGED << samplerVars, memVars, replay >>

\* the writer is dropped without finish: the file stays as it is
WriterDrop ==
  /\ recording.state = "writing"
  /\ recording' = [ recording EXCEPT !.state = "dropped" ]
  /\ UNCHANGED << samplerVars, memVars, replay >>

RECURSIVE ReadFrames(_, _)
\* the frames from pos on, up to EOF_MARKER or to the end of what decodes
ReadFrames(stream, pos) ==
  IF pos + 3 > Len(stream) THEN [ frames |-> << >>, clean |-> FALSE ]
  ELSE IF SubSeq(stream, pos, pos + 3) = EOF_MARKER
    THEN [ frames |-> << >>, clean |-> TRUE ]
  ELSE LET n == ReadU32LE(stream, pos)
           f == DecodeFrame(SubSeq(stream, pos + 4, pos + 3 + n))
       IN IF pos + 3 + n > Len(stream) \/ ~f.ok
            THEN [ frames |-> << >>, clean |-> FALSE ]
            ELSE LET rest == ReadFrames(stream, pos + 4 + n)
                 IN [ rest EXCEPT !.frames = << f.val >> \o @ ]

\* a reader that takes a file without EOF_MARKER for an unreadable one
ReadRecording_NeedsEof(file) ==
  IF Len(file) < 5 \/ SubSeq(file, 1, 4) # MAGIC \/ file[5] # FORMAT_VERSION
    THEN [ ok |-> FALSE ]
  ELSE LET stream == Decompress(SubSeq(file, 6, Len(file)))
           ml == ReadVarint(stream, 1)
           md == DecodeMetadata(SubSeq(stream, ml.pos, ml.pos + ml.val - 1))
           fs == ReadFrames(stream, ml.pos + ml.val)
       IN IF ~ml.ok \/ ml.pos + ml.val - 1 > Len(stream) \/ ~md.ok \/ ~fs.clean
            THEN [ ok |-> FALSE ]
            ELSE [ ok |-> TRUE, metadata |-> md.val, frames |-> fs.frames,
                   truncated |-> FALSE ]

\* RecordingReader::open: magic and version are checked, the metadata and
\* all frames are decoded
ReadRecording(file) ==
  IF Len(file) < 5 \/ SubSeq(file, 1, 4) # MAGIC \/ file[5] # FORMAT_VERSION
    THEN [ ok |-> FALSE ]
  ELSE LET stream == Decompress(SubSeq(file, 6, Len(file)))
           ml == ReadVarint(stream, 1)
           md == DecodeMetadata(SubSeq(stream, ml.pos, ml.pos + ml.val - 1))
           fs == ReadFrames(stream, ml.pos + ml.val)
       IN IF ~ml.ok \/ ml.pos + ml.val - 1 > Len(stream) \/ ~md.ok
            THEN [ ok |-> FALSE ]
            ELSE [ ok |-> TRUE, metadata |-> md.val, frames |-> fs.frames,
                   truncated |-> ~fs.clean ]

\* Option::None
None == [ some |-> FALSE ]

\* the source over what open returned, at time now: playing, at index 0, at
\* speed 1, the histogram empty; sought is the target of the seek that was
\* the last operation, -1 after any other
Opened(r, now) ==
  IF ~r.ok THEN [ state |-> "error" ]
  ELSE [ state |-> "open", metadata |-> r.metadata, frames |-> r.frames,
         truncated |-> r.truncated, index |-> 0, speed |-> << 1, 1 >>,
         paused |-> FALSE, finished |-> FALSE, last_emit |-> now,
         now |-> now, result |-> None, emitted |-> << >>, call |-> 0,
         histogram |-> << >>, sought |-> -1 ]

\* a replay source opened on the file of a closed recording at time now
ReplayOpen(now) ==
  /\ recording.state \in {"finished", "dropped", "truncated"}
  /\ replay.state = "none"
  /\ replay' = Opened(ReadRecording(recording.file), now)
  /\ UNCHANGED << samplerVars, memVars, recording >>

\* a source that is stopped by the end of the recording only
Halted_FinishedOnly(rp) == rp.finished

\* paused or finished
Halted(rp) == rp.paused \/ rp.finished

\* (now - last_emit) >= period / speed, the speed being speed[1] / speed[2]
EmitDue(elapsed, period, speed) == elapsed * speed[1] >= period * speed[2]

\* a source that emits the frame after the one it is at
FrameToEmit_Next(frames, index) ==
  frames[IF index + 2 <= Len(frames) THEN index + 2 ELSE index + 1]

\* the frame a due call returns: frame[index - 1] of the advanced index,
\* counting from 0
FrameToEmit(frames, index) == frames[index + 1]

\* next_frame at time now: the source after the call, its result in result
next_frame(rp, now) ==
  IF Halted(rp) THEN [ rp EXCEPT !.result = None ]
  ELSE IF /\ rp.index < Len(rp.frames)
          /\ EmitDue(now - rp.last_emit, rp.frames[rp.index + 1].sample_period, rp.speed)
    THEN [ rp EXCEPT !.index = @ + 1,
                     !.last_emit = now,
                     !.result = [ some |-> TRUE, frame |-> FrameToEmit(rp.frames, rp.index) ],
                     !.finished = (rp.index + 1 = Len(rp.frames)) ]
  ELSE [ rp EXCEPT !.result = None ]

RECURSIVE SumJit(_)
SumJit(ds) == IF ds = << >> THEN 0 ELSE Head(ds).jit_time + SumJit(Tail(ds))

\* the HistogramEntry of a frame: its load in percent of the cycles of its
\* period, and whether it is one core of load or more
HistogramEntryOf(md, f) ==
  LET MaxCycles == md.cycle_counter_frequency * f.sample_period
  IN [ load_percent |-> IF MaxCycles = 0 THEN 0
                        ELSE (SumJit(f.per_thread_deltas) * 100) \div MaxCycles,
       high_jit_load |-> SumJit(f.per_thread_deltas) >= MaxCycles ]

\* the ring of HistogramSize entries: the oldest goes when it is full
RingPush(h, e) == IF Len(h) >= HistogramSize THEN Append(Tail(h), e) ELSE Append(h, e)

\* the source and the histogram of its consumer after a call of next_frame at
\* time now; emitted is the history of the frames returned, call alternates
\* with every call
Played(rp, now) ==
  LET r == next_frame(rp, now)
  IN [ r EXCEPT !.now = now,
                !.call = 1 - @,
                !.sought = -1,
                !.emitted = IF r.result.some THEN Append(@, r.result.frame) ELSE @,
                !.histogram = IF r.result.some
                                THEN RingPush(@, HistogramEntryOf(rp.metadata, r.result.frame))
                                ELSE @ ]

\* a call of next_frame, d after the previous reading of the clock
ReplayNextFrame(d) ==
  /\ replay.state = "open"
  /\ replay' = Played(replay, replay.now + d)
  /\ UNCHANGED << samplerVars, memVars, recording >>

RECURSIVE RebuildHistogram(_, _, _)
\* the histogram replayed from frame 0 through frame k
RebuildHistogram(md, frames, k) ==
  IF k < 0 THEN << >>
  ELSE RingPush(RebuildHistogram(md, frames, k - 1), HistogramEntryOf(md, frames[k + 1]))

\* a seek that adds the frame it emits to the histogram it finds
seek_KeepsHistogram(rp, k, now) ==
  [ rp EXCEPT !.index = k + 1,
              !.last_emit = now,
              !.result = [ some |-> TRUE, frame |-> FrameToEmit(rp.frames, k) ],
              !.finished = (k + 1 = Len(rp.frames)),
              !.histogram = RingPush(@, HistogramEntryOf(rp.metadata, rp.frames[k + 1])) ]

\* a seek to index k at time now: the frame at k is emitted at once and the
\* histogram is rebuilt from frame 0 through k
seek(rp, k, now) ==
  [ rp EXCEPT !.index = k + 1,
              !.last_emit = now,
              !.result = [ some |-> TRUE, frame |-> FrameToEmit(rp.frames, k) ],
              !.finished = (k + 1 = Len(rp.frames)),
              !.histogram = RebuildHistogram(rp.metadata, rp.frames, k) ]

\* a seek to the absolute index k
ReplaySeek(k) ==
  /\ replay.state = "open"
  /\ k \in 0..(Len(replay.frames) - 1)
  /\ LET r == seek(replay, k, replay.now)
     IN replay' = [ r EXCEPT !.sought = k, !.emitted = Append(@, r.result.frame) ]
  /\ UNCHANGED << samplerVars, memVars, recording >>

\* a seek by d from the frame emitted last
ReplaySeekBy(d) ==
  /\ replay.state = "open"
  /\ replay.index >= 1
  /\ ReplaySeek(replay.index - 1 + d)

\* the bytes of the stream the header takes: the metadata and its length
HeaderLen(md) == Len(Varint(Len(EncodeMetadata(md))) \o EncodeMetadata(md))

\* the bytes of the stream a file holds
StreamLen(file) == Len(Decompress(SubSeq(file, 6, Len(file))))

\* the file of a closed recording loses everything behind its first n bytes,
\* n behind the header
FileTruncate(n) ==
  /\ recording.state \in {"finished", "dropped"}
  /\ replay.state = "none"
  /\ n < Len(recording.file)
  /\ HeaderLen(recording.metadata) <= StreamLen(SubSeq(recording.file, 1, n))
  /\ recording' = [ recording EXCEPT !.state = "truncated", !.file = SubSeq(@, 1, n) ]
  /\ UNCHANGED << samplerVars, memVars, replay >>

\* pause and resume
ReplayTogglePause ==
  /\ replay.state = "open"
  /\ replay' = [ replay EXCEPT !.paused = ~@ ]
  /\ UNCHANGED << samplerVars, memVars, recording >>

ReplaySetSpeed(speed) ==
  /\ replay.state = "open"
  /\ replay.speed # speed
  /\ replay' = [ replay EXCEPT !.speed = speed ]
  /\ UNCHANGED << samplerVars, memVars, recording >>

(***************************************************************************)
(* SpecReplay: a recording of a few frames is written, finished or         *)
(* dropped, then opened and replayed with pauses and changes of speed.     *)
(***************************************************************************)
ThreadDelta(tid, jit_time) == [ tid |-> tid, jit_time |-> jit_time ]

Frame(ts, period, jit_count, deltas) ==
  [ timestamp |-> ts, sample_period |-> period, total_jit_count |-> jit_count,
    per_thread_deltas |-> deltas ]

\* frames of no, one and two threads, with values of one and of two bytes
FrameSet ==
  { Frame(1, 1, 0, << >>),
    Frame(2, 2, 300, << ThreadDelta(7, 130) >>),
    Frame(2, 1, 127, << ThreadDelta(7, 128), ThreadDelta(200, 0) >>) }

MetadataSet ==
  { [ pid |-> 1000, fex_version |-> << 70, 69, 88 >>, stats_version |-> STATS_VERSION,
      cycle_counter_frequency |-> 10, hardware_concurrency |-> 2 ],
    [ pid |-> 5, fex_version |-> << >>, stats_version |-> STATS_VERSION,
      cycle_counter_frequency |-> 24000, hardware_concurrency |-> 128 ] }

\* half, same and double speed
SpeedSet == { << 1, 2 >>, << 1, 1 >>, << 2, 1 >> }

InitReplay ==
  /\ InitMain(LinkedRegion(FullSize, << >>, << >>), FullSize, 1, 10, 2, 0)
  /\ InitMemory(<< >>)

NextReplay ==
  \/ \E md \in MetadataSet : WriterCreate(md)
  \/ \E f \in FrameSet :
       recording.state = "writing" /\ Len(recording.written) < MaxFrames /\ WriteFrame(f)
  \/ WriterFinish
  \/ WriterDrop
  \/ ReplayOpen(0)
  \/ \E d \in 0..2 :
       replay.state = "open" /\ replay.now + d <= MaxReplayClock /\ ReplayNextFrame(d)
  \/ ReplayTogglePause
  \/ \E speed \in SpeedSet : ReplaySetSpeed(speed)

SpecReplay == InitReplay /\ [][NextReplay]_vars

C29_ReplayEmitsEachFrameOnceInOrder ==
  replay.state = "open" =>
    /\ replay.index <= Len(replay.frames)
    /\ replay.emitted = SubSeq(replay.frames, 1, replay.index)
    /\ replay.finished = (replay.frames # << >> /\ replay.index = Len(replay.frames))

\* a recording of two different frames has been played to its end
C29_Witness ==
  /\ replay.state = "open"
  /\ replay.finished
  /\ Len(replay.frames) = 2
  /\ replay.frames[1] # replay.frames[2]
  /\ replay.emitted = replay.frames
  /\ ~replay.result.some

\* C30: a call of next_frame on a source that is paused or finished returns
\* None and leaves the playback index and the frames returned as they were.
C30_HaltedSourceReturnsNone ==
  [][ (replay.state = "open" /\ replay'.call # replay.call
         /\ (replay.paused \/ replay.finished)) =>
        /\ ~replay'.result.some
        /\ replay'.index = replay.index
        /\ replay'.emitted = replay.emitted ]_vars

\* a paused source with a frame long due has been called at double speed
C30_Witness ==
  /\ replay.state = "open"
  /\ replay.paused
  /\ ~replay.finished
  /\ replay.index < Len(replay.frames)
  /\ replay.speed = << 2, 1 >>
  /\ replay.now - replay.last_emit > replay.frames[replay.index + 1].sample_period
  /\ ~replay.result.some

(***************************************************************************)
(* SpecSeek: a recording is written, closed and possibly cut short behind  *)
(* its header, then opened and played with seeks.                          *)
(***************************************************************************)
NextSeek ==
  \/ \E md \in MetadataSet : WriterCreate(md)
  \/ \E f \in FrameSet :
       recording.state = "writing" /\ Len(recording.written) < MaxFrames /\ WriteFrame(f)
  \/ WriterFinish
  \/ WriterDrop
  \/ recording.state \in {"finished", "dropped"}
       /\ \E n \in 5..(Len(recording.file) - 1) : FileTruncate(n)
  \/ ReplayOpen(0)
  \/ \E d \in {2} :
       replay.state = "open" /\ replay.now + d <= MaxReplayClock /\ ReplayNextFrame(d)
  \/ \E d \in {-1, 1} :
       replay.state = "open" /\ Len(replay.emitted) < MaxEmitted /\ ReplaySeekBy(d)
  \/ \E k \in 0..(MaxFrames - 1) :
       replay.state = "open" /\ Len(replay.emitted) < MaxEmitted /\ ReplaySeek(k)

SpecSeek == InitReplay /\ [][NextSeek]_vars

RECURSIVE LivePlayback(_, _)
\* the source after playback from frame 0 has emitted n frames, each call of
\* next_frame made at the time its frame is due
LivePlayback(rp, n) ==
  IF n = 0 THEN rp
  ELSE LET p == LivePlayback(rp, n - 1)
       IN Played(p, p.last_emit + p.frames[p.index + 1].sample_period * p.speed[2])

\* C31: after a seek to a valid index k, absolute or by one, the frame
\* emitted is frame k of the recording, and the histogram is the one that
\* playback of the file from frame 0 holds just after it has emitted frame k.
C31_SeekEqualsLivePlayback ==
  (replay.state = "open" /\ replay.sought >= 0) =>
    LET k == replay.sought
        live == LivePlayback(Opened(ReadRecording(recording.file), 0), k + 1)
    IN /\ replay.result.some
       /\ replay.result.frame = recording.written[k + 1]
       /\ live.result.some /\ live.result.frame = replay.result.frame
       /\ replay.histogram = live.histogram

\* a source that had played both frames of a recording has sought back to
\* frame 0, whose entry differs from that of frame 1
C31_Witness ==
  /\ replay.state = "open"
  /\ replay.sought = 0
  /\ Len(replay.frames) = 2
  /\ Len(replay.emitted) = 3
  /\ replay.emitted[2] = replay.frames[2]
  /\ Len(replay.histogram) = 1
  /\ HistogramEntryOf(replay.metadata, replay.frames[1])
       # HistogramEntryOf(replay.metadata, replay.frames[2])

RECURSIVE FrameEnd(_, _, _)
\* the bytes of the stream up to the end of the i-th frame written
FrameEnd(md, written, i) ==
  IF i = 0 THEN HeaderLen(md)
  ELSE FrameEnd(md, written, i - 1) + 4 + Len(EncodeFrame(written[i]))

\* the frames that lie whole in the first avail bytes of the stream
CompleteFrames(md, written, avail) ==
  Cardinality({ i \in 1..Len(written) : FrameEnd(md, written, i) <= avail })

\* C32: opening a recording cut short anywhere behind its header succeeds
\* and gives the metadata and exactly the frames written whole before the
\* cut, in order, with the truncation flagged; replay is finished when it has
\* emitted the last of them.
C32_TruncatedRecordingOpens ==
  (recording.state = "truncated" /\ replay.state # "none") =>
    LET n == CompleteFrames(recording.metadata, recording.written,
                            StreamLen(recording.file))
    IN /\ replay.state = "open"
       /\ replay.metadata = recording.metadata
       /\ replay.frames = SubSeq(recording.written, 1, n)
       /\ replay.truncated
       /\ replay.finished <=> (n > 0 /\ replay.index = n)

\* a recording of two frames cut inside its second frame has been opened and
\* played to its first frame, the last one
C32_Witness ==
  /\ recording.state = "truncated"
  /\ Len(recording.written) = 2
  /\ FrameEnd(recording.metadata, recording.written, 1) + 4 < StreamLen(recording.file)
  /\ StreamLen(recording.file) < FrameEnd(recording.metadata, recording.written, 2)
  /\ replay.state = "open"
  /\ replay.frames = << recording.written[1] >>
  /\ replay.finished
  /\ replay.emitted = replay.frames


(***************************************************************************)
(* SpecRecords: regions whose header gives record sizes of every kind and  *)
(* whose thread lists are linear, point back or point to themselves, and   *)
(* which the emulator relinks while a walk is under way.                   *)
(***************************************************************************)
\* threads 1 and 2 at Slot(1) and Slot(2), linked from Head by next1 and
\* next2; every counter of thread i is v + i; the header gives record size tss
RecordRegion(tss, next1, next2, v) ==
  [ Version |-> STATS_VERSION,
    ThreadStatsSize |-> tss,
    Size |-> FullSize,
    Head |-> Slot(1),
    Stats |->
      [ o \in { Slot(1), Slot(2) } |->
          [ f \in Fields |->
              IF f = "Next" THEN (IF o = Slot(1) THEN next1 ELSE next2)
              ELSE IF f = "TID" THEN (IF o = Slot(1) THEN 1 ELSE 2)
              ELSE v + (IF o = Slot(1) THEN 1 ELSE 2) ] ] ]

\* record sizes a header can give: none, less than one element, one element,
\* no whole number of elements, the reader's own, a larger one
RecordSizes ==
  { 0, CopyTypeBytes \div 2, CopyTypeBytes, ThreadStatsBytes - CopyTypeBytes \div 2,
    ThreadStatsBytes, ThreadStatsBytes + CopyTypeBytes }

\* a list that ends, a record that points to itself, a record that points back
RecordLinks == { << Slot(2), 0 >>, << Slot(1), 0 >>, << Slot(2), Slot(1) >> }

RecordRegions ==
  { RecordRegion(tss, l[1], l[2], v) : tss \in RecordSizes, l \in RecordLinks, v \in {4, 8} }

InitRecords ==
  /\ \E r \in RecordRegions : InitMain(r, FullSize, 1, 10, 2, 0)
  /\ InitMemory(<< >>)

NextRecords ==
  \/ n_passes < MaxRecordPasses /\ PassBegin(SamplePeriod, shm_base)
  \/ WalkEnd
  \/ walk.visits < MaxWalkVisits /\ WalkCopy
  \/ PassFinish
  \/ \E r \in RecordRegions : r.Stats[Slot(1)]["SMCCount"] >= region.Stats[Slot(1)]["SMCCount"]
                              /\ EmuWrite(r)

SpecRecords == InitRecords /\ [][NextRecords]_vars

\* the walk copies the record at HeaderOffset in this step
CopyStep == pc = "walk" /\ walk'.visits = walk.visits + 1

\* the entry of the record at HeaderOffset holds after the step what a copy
\* of the first n bytes of the record over its Stats gives
CopiedBytes(n) ==
  LET Stat == StatFromOffset(region, HeaderOffset)
  IN sampled_stats'[Stat["TID"]].Stats =
       Memcpy(Entry(sampled_stats, Stat["TID"]).Stats, Stat, n)

RecordsIn(size) == (size - HeaderBytes) \div ThreadStatsBytes

\* C36: a walk copies no more records than the mapped region has room for.
C36_WalkVisitsAreBounded ==
  walk.visits <= RecordsIn(shm_size)

=============================================================================
